---- MODULE Spec2Model ----
(***************************************************************************)
(* BillBreak: the bill reducer (Assignment Store), its selectors (Share    *)
(* Calculator) and the input boundaries that feed the store.               *)
(*                                                                         *)
(* Numbers.  Ids are positive integers (0 stands for null).  Quantities,   *)
(* unit prices and tax/tip amounts are integers.  Derived money values are *)
(* exact fractions <<n, d>> in lowest terms with d > 0; <<0, 0>> is NaN,   *)
(* <<1, 0>> is +Infinity and <<-1, 0>> is -Infinity, the values a division *)
(* by zero produces.  Binary floating-point rounding is not modelled.      *)
(***************************************************************************)
EXTENDS Integers, Sequences, FiniteSets, TLC

\* ------------------------------------------------------------------ bounds

\* Items held by the bill at once.
MaxItems == 2
\* Participants held by the bill at once.
MaxUsers == 2
\* Largest quantity typed, parsed or assigned.
MaxQty == 3
\* Largest unit price typed or parsed.
MaxPrice == 1
\* Largest magnitude of a negative number typed or parsed.
MaxNeg == 1
\* Largest tax or tip amount.
MaxAmount == 1

\* ------------------------------------------------------------- arithmetic

Abs(x) == IF x < 0 THEN -x ELSE x

Min(a, b) == IF a < b THEN a ELSE b

Max(a, b) == IF a > b THEN a ELSE b

RECURSIVE Gcd(_, _)
Gcd(a, b) == IF b = 0 THEN a ELSE Gcd(b, a % b)

\* floor(a / b) for b > 0.
FloorDiv(a, b) == IF a >= 0 THEN a \div b ELSE -((-a + b - 1) \div b)

NaN == <<0, 0>>

Sign(x) == IF x > 0 THEN 1 ELSE IF x < 0 THEN -1 ELSE 0

\* The number n / d: a fraction in lowest terms, or NaN / +-Infinity when d = 0.
Frac(n, d) ==
  IF d = 0 THEN <<Sign(n), 0>>
  ELSE LET g == Gcd(Abs(n), Abs(d))
           s == IF d < 0 THEN -1 ELSE 1
       IN  <<(s * n) \div g, (s * d) \div g>>

Num(n) == <<n, 1>>

IsFinite(x) == x[2] # 0

Add(x, y) ==
  IF IsFinite(x) /\ IsFinite(y) THEN Frac(x[1] * y[2] + y[1] * x[2], x[2] * y[2])
  ELSE IF IsFinite(x) THEN y
  ELSE IF IsFinite(y) THEN x
  ELSE IF x = y THEN x ELSE NaN

Mul(x, y) ==
  IF IsFinite(x) /\ IsFinite(y) THEN Frac(x[1] * y[1], x[2] * y[2])
  ELSE IF x = NaN \/ y = NaN \/ x[1] = 0 \/ y[1] = 0 THEN NaN
  ELSE <<Sign(x[1]) * Sign(y[1]), 0>>

Div(x, y) ==
  IF IsFinite(x) /\ IsFinite(y) THEN Frac(x[1] * y[2], x[2] * y[1])
  ELSE IF IsFinite(x) /\ y # NaN THEN Num(0)
  ELSE IF IsFinite(y) /\ x # NaN THEN <<x[1] * (IF y[1] < 0 THEN -1 ELSE 1), 0>>
  ELSE NaN

\* x > y as JavaScript compares numbers: false when either side is NaN.
Gt(x, y) ==
  /\ x # NaN
  /\ y # NaN
  /\ IF IsFinite(x) /\ IsFinite(y) THEN x[1] * y[2] > y[1] * x[2]
     ELSE IF IsFinite(x) THEN y[1] < 0
     ELSE IF IsFinite(y) THEN x[1] > 0
     ELSE x[1] > y[1]

\* Math.round: the nearest integer, halves towards +Infinity.
MathRound(x) ==
  IF IsFinite(x) THEN Num(FloorDiv(2 * x[1] + x[2], 2 * x[2])) ELSE x

RECURSIVE SumSeq(_)
SumSeq(s) == IF s = <<>> THEN 0 ELSE Head(s) + SumSeq(Tail(s))

RECURSIVE SumFrac(_)
SumFrac(s) == IF s = <<>> THEN Num(0) ELSE Add(Head(s), SumFrac(Tail(s)))

Range(s) == {s[i] : i \in DOMAIN s}

\* ------------------------------------------------------------------ types

NoId == 0

USER_COLOR_LIST == <<"emerald", "blue", "purple", "rose">>

\* The one item name and the one participant name of the model: names are
\* carried through the store unread.
ItemName == "Pizza"

UserName == "Alice"

getAssignedQuantity(item) ==
  SumSeq([i \in DOMAIN item.assignments |-> item.assignments[i].quantity])

getRemainingQuantity(item) == item.quantity - getAssignedQuantity(item)

\* item.assignments.find(a => a.userId === userId): the index of the first
\* record of that participant, 0 when there is none.
FindAssignment(item, userId) ==
  LET hits == {i \in DOMAIN item.assignments : item.assignments[i].userId = userId}
  IN  IF hits = {} THEN 0 ELSE CHOOSE i \in hits : \A j \in hits : i <= j

getUserAssignedQuantity(item, userId) ==
  LET i == FindAssignment(item, userId)
  IN  IF i = 0 THEN 0 ELSE item.assignments[i].quantity

initialState ==
  [currentStatus |-> "upload",
   items |-> <<>>,
   users |-> <<>>,
   taxAmount |-> 0,
   tipAmount |-> 0,
   selectedItemId |-> NoId]

\* ---------------------------------------------------------------- helpers

\* Mutant: the color is chosen by the number of participants alone.
getNextUserColor_ByCount(existingUsers) ==
  USER_COLOR_LIST[(Len(existingUsers) % Len(USER_COLOR_LIST)) + 1]

getNextUserColor(existingUsers) ==
  LET usedColors == {existingUsers[i].color : i \in DOMAIN existingUsers}
      free == {k \in DOMAIN USER_COLOR_LIST : USER_COLOR_LIST[k] \notin usedColors}
  IN  IF free # {}
      THEN USER_COLOR_LIST[CHOOSE k \in free : \A j \in free : k <= j]
      ELSE USER_COLOR_LIST[(Len(existingUsers) % Len(USER_COLOR_LIST)) + 1]

\* ---------------------------------------------------------------- reducer
\* One operator per case of billReducer: (state, payload) -> new state.

SET_ITEMS(s, payload) == [s EXCEPT !.items = payload]

\* id is the value generateId() returns for the new item.
ADD_ITEM(s, id, payload) ==
  LET newItem == [id |-> id,
                  name |-> payload.name,
                  price |-> payload.price,
                  quantity |-> payload.quantity,
                  assignments |-> <<>>]
  IN  [s EXCEPT !.items = Append(s.items, newItem)]

\* Mutant: removing an item always clears the selection.
REMOVE_ITEM_ClearSelection(s, itemId) ==
  [s EXCEPT !.items = SelectSeq(s.items, LAMBDA item : item.id # itemId),
            !.selectedItemId = NoId]

REMOVE_ITEM(s, itemId) ==
  [s EXCEPT !.items = SelectSeq(s.items, LAMBDA item : item.id # itemId),
            !.selectedItemId = IF s.selectedItemId = itemId THEN NoId
                               ELSE s.selectedItemId]

\* { ...item, ...updates }: a field of updates replaces the item's field.
Spread(item, updates, field) ==
  IF field \in DOMAIN updates THEN updates[field] ELSE item[field]

\* Mutant: a record above the item's new quantity is cut down to it.
UPDATE_ITEM_Reconcile(s, itemId, updates) ==
  [s EXCEPT !.items =
     [i \in DOMAIN s.items |->
        IF s.items[i].id = itemId
        THEN LET quantity == Spread(s.items[i], updates, "quantity")
                 assignments == Spread(s.items[i], updates, "assignments")
             IN  [id |-> Spread(s.items[i], updates, "id"),
                  name |-> Spread(s.items[i], updates, "name"),
                  price |-> Spread(s.items[i], updates, "price"),
                  quantity |-> quantity,
                  assignments |->
                    [k \in DOMAIN assignments |->
                       [assignments[k] EXCEPT !.quantity = Min(@, quantity)]]]
        ELSE s.items[i]]]

\* updates is a Partial<BillItem>: any of the item's fields.
UPDATE_ITEM(s, itemId, updates) ==
  [s EXCEPT !.items =
     [i \in DOMAIN s.items |->
        IF s.items[i].id = itemId
        THEN [id |-> Spread(s.items[i], updates, "id"),
              name |-> Spread(s.items[i], updates, "name"),
              price |-> Spread(s.items[i], updates, "price"),
              quantity |-> Spread(s.items[i], updates, "quantity"),
              assignments |-> Spread(s.items[i], updates, "assignments")]
        ELSE s.items[i]]]

\* id is the value generateId() returns for the new participant.
ADD_USER(s, id, name) ==
  LET newUser == [id |-> id, name |-> name, color |-> getNextUserColor(s.users)]
  IN  [s EXCEPT !.users = Append(s.users, newUser)]

ADD_USER_WITH_COLOR(s, id, name, color) ==
  [s EXCEPT !.users = Append(s.users, [id |-> id, name |-> name, color |-> color])]

SET_USERS(s, payload) == [s EXCEPT !.users = payload]

\* Mutant: the participant goes, the records stay.
REMOVE_USER_KeepRecords(s, userId) ==
  [s EXCEPT !.users = SelectSeq(s.users, LAMBDA user : user.id # userId)]

REMOVE_USER(s, userId) ==
  [s EXCEPT !.users = SelectSeq(s.users, LAMBDA user : user.id # userId),
            !.items =
              [i \in DOMAIN s.items |->
                 [s.items[i] EXCEPT !.assignments =
                    SelectSeq(s.items[i].assignments, LAMBDA a : a.userId # userId)]]]

\* updates carries name and color.
UPDATE_USER(s, userId, updates) ==
  [s EXCEPT !.users =
     [i \in DOMAIN s.users |->
        IF s.users[i].id = userId
        THEN [s.users[i] EXCEPT !.name = updates.name, !.color = updates.color]
        ELSE s.users[i]]]

\* Mutant: assign adds the quantity to the record's prior value.
ASSIGN_ITEM_AddTo(s, itemId, userId, quantity) ==
  [s EXCEPT !.items =
     [i \in DOMAIN s.items |->
        LET item == s.items[i] IN
        IF item.id # itemId THEN item
        ELSE IF FindAssignment(item, userId) # 0
        THEN [item EXCEPT !.assignments =
                [k \in DOMAIN item.assignments |->
                   IF item.assignments[k].userId = userId
                   THEN [item.assignments[k] EXCEPT !.quantity = @ + quantity]
                   ELSE item.assignments[k]]]
        ELSE [item EXCEPT !.assignments =
                Append(item.assignments, [userId |-> userId, quantity |-> quantity])]]]

\* Mutant: assign appends a record without looking for an existing one.
ASSIGN_ITEM_Append(s, itemId, userId, quantity) ==
  [s EXCEPT !.items =
     [i \in DOMAIN s.items |->
        IF s.items[i].id # itemId THEN s.items[i]
        ELSE [s.items[i] EXCEPT !.assignments =
                Append(s.items[i].assignments,
                       [userId |-> userId, quantity |-> quantity])]]]

ASSIGN_ITEM(s, itemId, userId, quantity) ==
  [s EXCEPT !.items =
     [i \in DOMAIN s.items |->
        LET item == s.items[i] IN
        IF item.id # itemId THEN item
        ELSE IF FindAssignment(item, userId) # 0
        THEN [item EXCEPT !.assignments =
                [k \in DOMAIN item.assignments |->
                   IF item.assignments[k].userId = userId
                   THEN [item.assignments[k] EXCEPT !.quantity = quantity]
                   ELSE item.assignments[k]]]
        ELSE [item EXCEPT !.assignments =
                Append(item.assignments, [userId |-> userId, quantity |-> quantity])]]]

\* Mutant: unassigning sets the record to 0 and keeps it.
UNASSIGN_ITEM_KeepZero(s, itemId, userId) ==
  IF itemId \in {s.items[i].id : i \in DOMAIN s.items}
        /\ FindAssignment(CHOOSE item \in {s.items[i] : i \in DOMAIN s.items} : item.id = itemId,
                          userId) # 0
  THEN ASSIGN_ITEM(s, itemId, userId, 0)
  ELSE s

UNASSIGN_ITEM(s, itemId, userId) ==
  [s EXCEPT !.items =
     [i \in DOMAIN s.items |->
        IF s.items[i].id = itemId
        THEN [s.items[i] EXCEPT !.assignments =
                SelectSeq(s.items[i].assignments, LAMBDA a : a.userId # userId)]
        ELSE s.items[i]]]

\* Mutant: toggle removes an existing record only when it holds one unit.
TOGGLE_ITEM_ASSIGNMENT_KeepLarge(s, itemId, userId) ==
  [s EXCEPT !.items =
     [i \in DOMAIN s.items |->
        LET item == s.items[i] IN
        IF item.id # itemId THEN item
        ELSE IF FindAssignment(item, userId) # 0
        THEN [item EXCEPT !.assignments =
                SelectSeq(item.assignments,
                          LAMBDA a : a.userId # userId \/ a.quantity # 1)]
        ELSE LET remaining == getRemainingQuantity(item)
                 quantityToAssign == IF item.quantity = 1 THEN 1 ELSE Max(1, remaining)
             IN  [item EXCEPT !.assignments =
                    Append(item.assignments,
                           [userId |-> userId, quantity |-> quantityToAssign])]]]

\* Mutant: toggle hands over the remaining quantity without the floor of 1.
TOGGLE_ITEM_ASSIGNMENT_NoFloor(s, itemId, userId) ==
  [s EXCEPT !.items =
     [i \in DOMAIN s.items |->
        LET item == s.items[i] IN
        IF item.id # itemId THEN item
        ELSE IF FindAssignment(item, userId) # 0
        THEN [item EXCEPT !.assignments =
                SelectSeq(item.assignments, LAMBDA a : a.userId # userId)]
        ELSE [item EXCEPT !.assignments =
                Append(item.assignments,
                       [userId |-> userId,
                        quantity |-> IF item.quantity = 1 THEN 1
                                     ELSE getRemainingQuantity(item)])]]]

TOGGLE_ITEM_ASSIGNMENT(s, itemId, userId) ==
  [s EXCEPT !.items =
     [i \in DOMAIN s.items |->
        LET item == s.items[i] IN
        IF item.id # itemId THEN item
        ELSE IF FindAssignment(item, userId) # 0
        THEN [item EXCEPT !.assignments =
                SelectSeq(item.assignments, LAMBDA a : a.userId # userId)]
        ELSE LET remaining == getRemainingQuantity(item)
                 quantityToAssign == IF item.quantity = 1 THEN 1 ELSE Max(1, remaining)
             IN  [item EXCEPT !.assignments =
                    Append(item.assignments,
                           [userId |-> userId, quantity |-> quantityToAssign])]]]

\* Mutant: the remainder goes to one participant too many (index <= remainder).
AssignAllRecords_OffByOne(item, users) ==
  LET userCount == Len(users) IN
  IF item.quantity >= userCount
  THEN LET baseQty == FloorDiv(item.quantity, userCount)
           remainder == item.quantity % userCount
       IN  [index \in DOMAIN users |->
              [userId |-> users[index].id,
               quantity |-> baseQty + (IF index - 1 <= remainder THEN 1 ELSE 0)]]
  ELSE [index \in DOMAIN users |-> [userId |-> users[index].id, quantity |-> 1]]

\* The records ASSIGN_ALL_TO_ITEM builds for one item (userCount > 0).
AssignAllRecords(item, users) ==
  LET userCount == Len(users) IN
  IF item.quantity >= userCount
  THEN LET baseQty == FloorDiv(item.quantity, userCount)
           remainder == item.quantity % userCount
       IN  [index \in DOMAIN users |->
              [userId |-> users[index].id,
               quantity |-> baseQty + (IF index - 1 < remainder THEN 1 ELSE 0)]]
  ELSE [index \in DOMAIN users |-> [userId |-> users[index].id, quantity |-> 1]]

\* Mutant: assign-all keeps the records the item holds and adds records for
\* the participants without one.
ASSIGN_ALL_TO_ITEM_KeepOld(s, itemId) ==
  [s EXCEPT !.items =
     [i \in DOMAIN s.items |->
        LET item == s.items[i] IN
        IF item.id # itemId THEN item
        ELSE IF Len(s.users) = 0 THEN item
        ELSE [item EXCEPT !.assignments =
                item.assignments \o
                SelectSeq(AssignAllRecords(item, s.users),
                          LAMBDA a : FindAssignment(item, a.userId) = 0)]]]

ASSIGN_ALL_TO_ITEM(s, itemId) ==
  [s EXCEPT !.items =
     [i \in DOMAIN s.items |->
        LET item == s.items[i] IN
        IF item.id # itemId THEN item
        ELSE IF Len(s.users) = 0 THEN item
        ELSE [item EXCEPT !.assignments = AssignAllRecords(item, s.users)]]]

UNASSIGN_ALL_FROM_ITEM(s, itemId) ==
  [s EXCEPT !.items =
     [i \in DOMAIN s.items |->
        IF s.items[i].id = itemId
        THEN [s.items[i] EXCEPT !.assignments = <<>>]
        ELSE s.items[i]]]

SET_TAX(s, amount) == [s EXCEPT !.taxAmount = amount]

SET_TIP(s, amount) == [s EXCEPT !.tipAmount = amount]

SET_STATUS(s, status) == [s EXCEPT !.currentStatus = status]

SELECT_ITEM(s, itemId) == [s EXCEPT !.selectedItemId = itemId]

RESET(s) == initialState

\* Mutant: the bill is loaded over the current state, not the initial one.
LOAD_DEMO_OverState(s, payload) ==
  [s EXCEPT !.items = payload.items,
            !.users = payload.users,
            !.taxAmount = payload.taxAmount]

LOAD_DEMO(s, payload) ==
  [initialState EXCEPT !.items = payload.items,
                       !.users = payload.users,
                       !.taxAmount = payload.taxAmount]

\* -------------------------------------------------------------- selectors

selectAssignmentProgress(s) ==
  IF Len(s.items) = 0 THEN Num(0)
  ELSE LET totalQuantity == SumSeq([i \in DOMAIN s.items |-> s.items[i].quantity])
           coveredQuantity ==
             SumSeq([i \in DOMAIN s.items |->
                       Min(getAssignedQuantity(s.items[i]), s.items[i].quantity)])
       IN  MathRound(Mul(Frac(coveredQuantity, totalQuantity), Num(100)))

selectSubtotal(s) ==
  SumSeq([i \in DOMAIN s.items |-> s.items[i].price * s.items[i].quantity])

selectGrandTotal(s) == selectSubtotal(s) + s.taxAmount + s.tipAmount

\* Mutant: the per-unit share, item.price * assignment.quantity.
UserItems_PerUnit(s, user) ==
  LET claimed == SelectSeq(s.items, LAMBDA item :
                   /\ FindAssignment(item, user.id) # 0
                   /\ item.assignments[FindAssignment(item, user.id)].quantity > 0)
  IN  [k \in DOMAIN claimed |->
         LET item == claimed[k]
             assignment == item.assignments[FindAssignment(item, user.id)]
         IN  [item |-> item,
              quantity |-> assignment.quantity,
              shareAmount |-> Num(item.price * assignment.quantity)]]

\* Mutant: the share is the record's part of item.quantity, not of the
\* quantity assigned.
UserItems_OfQuantity(s, user) ==
  LET claimed == SelectSeq(s.items, LAMBDA item :
                   /\ FindAssignment(item, user.id) # 0
                   /\ item.assignments[FindAssignment(item, user.id)].quantity > 0)
  IN  [k \in DOMAIN claimed |->
         LET item == claimed[k]
             assignment == item.assignments[FindAssignment(item, user.id)]
             itemTotalValue == item.price * item.quantity
         IN  [item |-> item,
              quantity |-> assignment.quantity,
              shareAmount |->
                Mul(Num(itemTotalValue), Frac(assignment.quantity, item.quantity))]]

\* Mutant: a record of quantity 0 gets a share entry as well.
UserItems_AnyRecord(s, user) ==
  LET claimed == SelectSeq(s.items, LAMBDA item : FindAssignment(item, user.id) # 0)
  IN  [k \in DOMAIN claimed |->
         LET item == claimed[k]
             assignment == item.assignments[FindAssignment(item, user.id)]
             totalAssigned == getAssignedQuantity(item)
             itemTotalValue == item.price * item.quantity
         IN  [item |-> item,
              quantity |-> assignment.quantity,
              shareAmount |->
                Mul(Num(itemTotalValue), Frac(assignment.quantity, totalAssigned))]]

\* The entries of one participant's share: one per item on which the
\* participant's first record has quantity > 0, in item order.
UserItems(s, user) ==
  LET claimed == SelectSeq(s.items, LAMBDA item :
                   /\ FindAssignment(item, user.id) # 0
                   /\ item.assignments[FindAssignment(item, user.id)].quantity > 0)
  IN  [k \in DOMAIN claimed |->
         LET item == claimed[k]
             assignment == item.assignments[FindAssignment(item, user.id)]
             totalAssigned == getAssignedQuantity(item)
             itemTotalValue == item.price * item.quantity
         IN  [item |-> item,
              quantity |-> assignment.quantity,
              shareAmount |->
                Mul(Num(itemTotalValue), Frac(assignment.quantity, totalAssigned))]]

\* Mutant: a participant's total leaves the tip share out.
selectUserShares_NoTip(s) ==
  LET subtotal == selectSubtotal(s) IN
  [u \in DOMAIN s.users |->
     LET user == s.users[u]
         userItems == UserItems(s, user)
         userSubtotal == SumFrac([k \in DOMAIN userItems |-> userItems[k].shareAmount])
         shareRatio == IF subtotal > 0 THEN Div(userSubtotal, Num(subtotal)) ELSE Num(0)
         taxShare == Mul(Num(s.taxAmount), shareRatio)
         tipShare == Mul(Num(s.tipAmount), shareRatio)
     IN  [user |-> user,
          subtotal |-> userSubtotal,
          taxShare |-> taxShare,
          tipShare |-> tipShare,
          total |-> Add(userSubtotal, taxShare),
          itemCount |-> Len(userItems),
          items |-> userItems]]

selectUserShares(s) ==
  LET subtotal == selectSubtotal(s) IN
  [u \in DOMAIN s.users |->
     LET user == s.users[u]
         userItems == UserItems(s, user)
         userSubtotal == SumFrac([k \in DOMAIN userItems |-> userItems[k].shareAmount])
         shareRatio == IF subtotal > 0 THEN Div(userSubtotal, Num(subtotal)) ELSE Num(0)
         taxShare == Mul(Num(s.taxAmount), shareRatio)
         tipShare == Mul(Num(s.tipAmount), shareRatio)
     IN  [user |-> user,
          subtotal |-> userSubtotal,
          taxShare |-> taxShare,
          tipShare |-> tipShare,
          total |-> Add(Add(userSubtotal, taxShare), tipShare),
          itemCount |-> Len(userItems),
          items |-> userItems]]

\* Mutant: the stricter readiness, every item covered in full.
selectIsBillReady_FullCoverage(s) ==
  IF Len(s.items) = 0 \/ Len(s.users) = 0 THEN FALSE
  ELSE \A i \in DOMAIN s.items : getAssignedQuantity(s.items[i]) >= s.items[i].quantity

selectIsBillReady(s) ==
  IF Len(s.items) = 0 \/ Len(s.users) = 0 THEN FALSE
  ELSE \A i \in DOMAIN s.items : getAssignedQuantity(s.items[i]) > 0

\* ------------------------------------------------------- input boundaries
\* A number field's text is modelled by the number it spells: NaN for empty
\* or non-numeric text, otherwise an integer.

TypedNumbers == {NaN} \cup {Num(n) : n \in (-MaxNeg)..Max(MaxQty, MaxPrice)}

NameTexts == {"", " ", "Pizza", " Pizza "}

\* String.prototype.trim on the name texts of the model.
Trim(text) == IF text \in {"", " "} THEN "" ELSE "Pizza"

\* The JavaScript expression (x || d) for a number x.
OrDefault(x, d) == IF x = NaN \/ x[1] = 0 THEN d ELSE x[1]

NoPayload == [ok |-> FALSE, name |-> "", price |-> 0, quantity |-> 0]

\* AddItemInput.handleSubmit: the payload handed to onAddItem, if any.
AddItemInput_handleSubmit(name, price, quantity) ==
  LET trimmedName == Trim(name)
      parsedPrice == OrDefault(price, 0)
      parsedQty == OrDefault(quantity, 1)
  IN  IF trimmedName # "" /\ parsedPrice > 0
      THEN [ok |-> TRUE, name |-> trimmedName, price |-> parsedPrice,
            quantity |-> parsedQty]
      ELSE NoPayload

\* EditItemModal.handleSave: the updates handed to onSave, if any.
EditItemModal_handleSave(name, price, quantity) ==
  LET trimmedName == Trim(name)
      parsedPrice == OrDefault(price, 0)
      parsedQty == OrDefault(quantity, 1)
  IN  IF trimmedName # "" /\ parsedPrice >= 0
      THEN [ok |-> TRUE, name |-> trimmedName, price |-> parsedPrice,
            quantity |-> parsedQty]
      ELSE NoPayload

\* ------------------------------------------------------------------ state

VARIABLES
  state,   \* the BillState held by useReducer(billReducer, initialState)
  last,    \* the action dispatched last (history, read by the properties only)
  upload   \* the state of useReceiptUpload, and whether the upload screen shows

vars == <<state, last, upload>>

\* useReceiptUpload as useState initialises it, on the mounted upload screen.
\* error "" stands for null; tax is taxBreakdown.total.
UploadIdle ==
  [mounted |-> TRUE, status |-> "idle", error |-> "", progress |-> 0,
   parsedItems |-> <<>>, tax |-> 0]

\* Another screen shows: the upload screen is unmounted and its hook state,
\* with any upload in flight, is gone.
Unmounted == [UploadIdle EXCEPT !.mounted = FALSE]

\* The value of upload in the specifications that do not follow the screens.
NoUpload == [UploadIdle EXCEPT !.mounted = FALSE, !.status = "OFF"]

\* navigate('/split') from the upload screen.
Leave == IF upload = NoUpload THEN NoUpload ELSE Unmounted

\* navigate('/'): the upload screen mounts.
Arrive == IF upload = NoUpload THEN NoUpload ELSE UploadIdle

\* The payload of a LOAD_DEMO that loads nothing.
NoLoad == [items |-> <<>>, users |-> <<>>, taxAmount |-> 0]

NoAction ==
  [type |-> "INIT", itemId |-> NoId, userId |-> NoId, quantity |-> 0, payload |-> NoLoad]

NoHistory ==
  [type |-> "OFF", itemId |-> NoId, userId |-> NoId, quantity |-> 0, payload |-> NoLoad]

\* The value of last after an action: the action, unless the history is off.
ActWith(type, itemId, userId, quantity, payload) ==
  IF last = NoHistory THEN NoHistory
  ELSE [type |-> type, itemId |-> itemId, userId |-> userId, quantity |-> quantity,
        payload |-> payload]

Act(type, itemId, userId, quantity) == ActWith(type, itemId, userId, quantity, NoLoad)

ItemIds(s) == {s.items[i].id : i \in DOMAIN s.items}

UserIds(s) == {s.users[i].id : i \in DOMAIN s.users}

ItemById(s, itemId) == s.items[CHOOSE i \in DOMAIN s.items : s.items[i].id = itemId]

\* The participant ids named by assignment records.
RecordUserIds(s) ==
  UNION {{s.items[i].assignments[k].userId : k \in DOMAIN s.items[i].assignments} :
           i \in DOMAIN s.items}

\* The number of assignment records, over all items, that name the participant.
RecordCount(s, userId) ==
  SumSeq([i \in DOMAIN s.items |->
            Len(SelectSeq(s.items[i].assignments, LAMBDA a : a.userId = userId))])

\* generateId() returns a timestamp with a random suffix: an id that nothing
\* in the state carries.  The model takes the least number not in use.  Item
\* ids and participant ids are never compared with each other, so each kind
\* is numbered on its own.
generateId(used) ==
  CHOOSE n \in 1..(Cardinality(used) + 1) :
    /\ n \notin used
    /\ \A m \in 1..(n - 1) : m \in used

NewItemId(s) == generateId((ItemIds(s) \cup {s.selectedItemId}) \ {NoId})

NewUserId(s) == generateId(UserIds(s) \cup RecordUserIds(s))

Init ==
  /\ state = initialState
  /\ last = NoAction
  /\ upload = NoUpload

\* ---------------------------------------------------------------- actions
\* The store's operations, each dispatched with the arguments its callers
\* pass: ids of items and participants on display, the item fields the input
\* boundaries let through, whole non-negative quantities.

\* What the add-item form can hand to the store, over all typed inputs.
AddItemPayloads ==
  {AddItemInput_handleSubmit(name, price, quantity) :
     name \in NameTexts, price \in TypedNumbers, quantity \in TypedNumbers}
  \ {NoPayload}

\* What the edit-item form can hand to the store, over all typed inputs.
EditItemPayloads ==
  {EditItemModal_handleSave(name, price, quantity) :
     name \in NameTexts, price \in TypedNumbers, quantity \in TypedNumbers}
  \ {NoPayload}

addItem ==
  /\ Len(state.items) < MaxItems
  /\ \E payload \in AddItemPayloads :
       /\ payload.price <= MaxPrice
       /\ payload.quantity <= MaxQty
       /\ state' = ADD_ITEM(state, NewItemId(state), payload)
       /\ last' = Act("ADD_ITEM", NewItemId(state), NoId, payload.quantity)
       /\ UNCHANGED upload

updateItem ==
  \E itemId \in ItemIds(state), updates \in EditItemPayloads :
    /\ updates.price <= MaxPrice
    /\ updates.quantity <= MaxQty
    /\ state' = UPDATE_ITEM(state, itemId, updates)
    /\ last' = Act("UPDATE_ITEM", itemId, NoId, updates.quantity)
    /\ UNCHANGED upload

removeItem ==
  \E itemId \in ItemIds(state) :
    /\ state' = REMOVE_ITEM(state, itemId)
    /\ last' = Act("REMOVE_ITEM", itemId, NoId, 0)
    /\ UNCHANGED upload

addUser ==
  /\ Len(state.users) < MaxUsers
  /\ state' = ADD_USER(state, NewUserId(state), UserName)
  /\ last' = Act("ADD_USER", NoId, NewUserId(state), 0)
  /\ UNCHANGED upload

\* The history keeps the number of records the participant held.
removeUser ==
  \E userId \in UserIds(state) :
    /\ state' = REMOVE_USER(state, userId)
    /\ last' = Act("REMOVE_USER", NoId, userId, RecordCount(state, userId))
    /\ UNCHANGED upload

assignItem ==
  \E itemId \in ItemIds(state), userId \in UserIds(state), quantity \in 0..MaxQty :
    /\ state' = ASSIGN_ITEM(state, itemId, userId, quantity)
    /\ last' = Act("ASSIGN_ITEM", itemId, userId, quantity)
    /\ UNCHANGED upload

unassignItem ==
  \E itemId \in ItemIds(state), userId \in UserIds(state) :
    /\ state' = UNASSIGN_ITEM(state, itemId, userId)
    /\ last' = Act("UNASSIGN_ITEM", itemId, userId, 0)
    /\ UNCHANGED upload

toggleItemAssignment ==
  \E itemId \in ItemIds(state), userId \in UserIds(state) :
    /\ state' = TOGGLE_ITEM_ASSIGNMENT(state, itemId, userId)
    /\ last' = Act("TOGGLE_ITEM_ASSIGNMENT", itemId, userId, 0)
    /\ UNCHANGED upload

assignAllToItem ==
  \E itemId \in ItemIds(state) :
    /\ state' = ASSIGN_ALL_TO_ITEM(state, itemId)
    /\ last' = Act("ASSIGN_ALL_TO_ITEM", itemId, NoId, 0)
    /\ UNCHANGED upload

unassignAllFromItem ==
  \E itemId \in ItemIds(state) :
    /\ state' = UNASSIGN_ALL_FROM_ITEM(state, itemId)
    /\ last' = Act("UNASSIGN_ALL_FROM_ITEM", itemId, NoId, 0)
    /\ UNCHANGED upload

setTax ==
  \E amount \in 0..MaxAmount :
    /\ state' = SET_TAX(state, amount)
    /\ last' = Act("SET_TAX", NoId, NoId, amount)
    /\ UNCHANGED upload

setTip ==
  \E amount \in 0..MaxAmount :
    /\ state' = SET_TIP(state, amount)
    /\ last' = Act("SET_TIP", NoId, NoId, amount)
    /\ UNCHANGED upload

Next ==
  \/ addItem
  \/ addUser
  \/ removeUser
  \/ assignItem
  \/ unassignItem
  \/ toggleItemAssignment
  \/ assignAllToItem
  \/ unassignAllFromItem

Spec == Init /\ [][Next]_vars

\* ------------------------------------------------------ the UI boundary
\* Items enter the store through the add-item form, the edit-item form, a
\* parsed receipt, the manual entry rows of the upload screen and the demo
\* bill.  The upload screen empties the store when it mounts over a bill
\* that has items, so its handlers run on a bill without items.

\* Largest magnitude of a negative number in the AI's JSON.
MaxJsonNeg == 2

\* Largest positive number in the AI's JSON.
MaxJson == 1

\* Largest sum of the record quantities of a bill in SpecUI.
UiMaxAssigned == 1

\* A number-valued field of the AI's JSON is modelled by what Number() makes
\* of it: NaN for a missing or non-numeric field, otherwise an integer.
JsonNumbers == {NaN} \cup {Num(n) : n \in (-MaxJsonNeg)..MaxJson}

\* The JavaScript expression (x || y) on two such fields.
OrElse(x, y) == IF x = NaN \/ x[1] = 0 THEN y ELSE x

\* parseAIResponse, one element of the items array: obj has the fields
\* name ("" when missing), price, quantity and qty.
ParsedItem(obj) ==
  [name |-> IF obj.name = "" THEN "Unknown Item" ELSE obj.name,
   price |-> OrDefault(obj.price, 0),
   quantity |-> OrDefault(OrElse(obj.quantity, obj.qty), 1)]

\* parseAIResponse, the total of the tax breakdown: rawTax is the sequence of
\* the component fields (cgst, sgst, igst, serviceCharge, serviceTax, vat,
\* cess, other), each defaulting to 0.
ParsedTaxTotal(rawTax) == SumSeq([k \in DOMAIN rawTax |-> OrDefault(rawTax[k], 0)])

parseAIResponse(rawItems, rawTax) ==
  [items |-> [k \in DOMAIN rawItems |-> ParsedItem(rawItems[k])],
   tax |-> ParsedTaxTotal(rawTax)]

\* The items of a sequence as bill items, each with a fresh id and no
\* assignments (parseReceiptWithAI; UploadScreen.handleManualSubmit).
RECURSIVE WithIds(_, _)
WithIds(items, used) ==
  IF items = <<>> THEN <<>>
  ELSE LET id == generateId(used)
       IN  <<[id |-> id,
              name |-> Head(items).name,
              price |-> Head(items).price,
              quantity |-> Head(items).quantity,
              assignments |-> <<>>]>>
           \o WithIds(Tail(items), used \cup {id})

parseReceiptWithAI(s, rawItems, rawTax) ==
  LET parsedData == parseAIResponse(rawItems, rawTax)
  IN  [items |-> WithIds(parsedData.items, ItemIds(s)), tax |-> parsedData.tax]

\* What the AI's JSON can say of one item.
RawItems ==
  [name : {ItemName}, price : JsonNumbers, quantity : JsonNumbers, qty : {NaN, Num(1)}]

\* The items parseAIResponse can make of one element, over all its values.
ParsedItems == {ParsedItem(obj) : obj \in RawItems}

\* The tax components of a receipt: cgst and sgst vary, the others are absent.
RawTaxes ==
  {<<cgst, sgst, NaN, NaN, NaN, NaN, NaN, NaN>> : cgst \in JsonNumbers, sgst \in {NaN, Num(1)}}

\* One raw element for each item parseAIResponse can produce.
RawOf(parsed) == CHOOSE obj \in RawItems : ParsedItem(obj) = parsed

DEMO_USERS ==
  <<[id |-> 101, name |-> "Alice", color |-> "emerald"],
    [id |-> 102, name |-> "Bob", color |-> "blue"],
    [id |-> 103, name |-> "Carol", color |-> "purple"],
    [id |-> 104, name |-> "Dave", color |-> "rose"]>>

DEMO_ITEMS ==
  <<[id |-> 101, name |-> "Garlic Bread", price |-> 180, quantity |-> 1, assignments |-> <<>>],
    [id |-> 102, name |-> "Nachos Grande", price |-> 350, quantity |-> 1, assignments |-> <<>>],
    [id |-> 103, name |-> "Margherita Pizza", price |-> 450, quantity |-> 1, assignments |-> <<>>],
    [id |-> 104, name |-> "Pepperoni Pizza", price |-> 550, quantity |-> 1, assignments |-> <<>>],
    [id |-> 105, name |-> "Chicken Alfredo Pasta", price |-> 380, quantity |-> 1, assignments |-> <<>>],
    [id |-> 106, name |-> "Grilled Salmon", price |-> 650, quantity |-> 1, assignments |-> <<>>],
    [id |-> 107, name |-> "Coca-Cola", price |-> 60, quantity |-> 5, assignments |-> <<>>],
    [id |-> 108, name |-> "Fresh Lime Soda", price |-> 80, quantity |-> 3, assignments |-> <<>>],
    [id |-> 109, name |-> "Craft Beer Pitcher", price |-> 450, quantity |-> 2, assignments |-> <<>>],
    [id |-> 110, name |-> "Chocolate Brownie", price |-> 220, quantity |-> 2, assignments |-> <<>>],
    [id |-> 111, name |-> "Ice Cream Sundae", price |-> 180, quantity |-> 1, assignments |-> <<>>]>>

DEMO_TAX == 285

\* The first n elements of a sequence.
Take(seq, n) == SubSeq(seq, 1, Min(n, Len(seq)))

\* useReceiptUpload.confirmItems, the state it leaves: when there are parsed
\* items they replace the bill's items, and the tax total is set when it is
\* positive.
ConfirmedState(s, parsedItems, taxTotal) ==
  IF Len(parsedItems) > 0
  THEN LET withItems == SET_ITEMS(s, parsedItems)
       IN  IF taxTotal > 0 THEN SET_TAX(withItems, taxTotal) ELSE withItems
  ELSE s

\* An upload that succeeds with at least one item, confirmed at once.
confirmItems ==
  /\ Len(state.items) = 0
  /\ \E n \in 1..MaxItems :
       \E parsed \in [1..n -> ParsedItems], rawTax \in RawTaxes :
         LET result == parseReceiptWithAI(state, [k \in 1..n |-> RawOf(parsed[k])], rawTax)
         IN  /\ state' = ConfirmedState(state, result.items, result.tax)
             /\ last' = Act("SET_ITEMS", NoId, NoId, 0)
             /\ UNCHANGED upload

\* The manual entry rows as typed: up to MaxItems rows of a name and a price.
ManualRows ==
  UNION {[1..n -> [name : NameTexts, price : TypedNumbers]] : n \in 1..MaxItems}

\* UploadScreen.handleManualSubmit, the items it makes of the rows: the rows
\* with a name and a price above 0, each with quantity 1.
ValidManualItems(rows) ==
  LET valid == SelectSeq(rows, LAMBDA row :
                 Trim(row.name) # "" /\ row.price # NaN /\ row.price[1] > 0)
  IN  [k \in DOMAIN valid |->
         [name |-> Trim(valid[k].name), price |-> valid[k].price[1], quantity |-> 1]]

\* The item lists handleManualSubmit can make, over all typed rows.
ManualSubmissions == {ValidManualItems(rows) : rows \in ManualRows}

\* UploadScreen.handleManualSubmit: the valid rows become the bill's items;
\* nothing is dispatched when no row is valid.
handleManualSubmit ==
  /\ Len(state.items) = 0
  /\ \E validItems \in ManualSubmissions :
       /\ Len(validItems) > 0
       /\ \A k \in DOMAIN validItems : validItems[k].price <= MaxPrice
       /\ state' = SET_ITEMS(state, WithIds(validItems, ItemIds(state)))
       /\ last' = Act("SET_ITEMS", NoId, NoId, 0)
       /\ upload' = Leave

\* UploadScreen.handleLoadDemo, the demo bill cut to the model's sizes.
handleLoadDemo ==
  /\ Len(state.items) = 0
  /\ state' = LOAD_DEMO(state, [items |-> Take(DEMO_ITEMS, MaxItems),
                                users |-> Take(DEMO_USERS, MaxUsers),
                                taxAmount |-> DEMO_TAX])
  /\ last' = Act("LOAD_DEMO", NoId, NoId, 0)
  /\ upload' = Leave

\* The upload screen mounts: its effect resets a bill that has items, and
\* the upload hook starts idle.
mountUploadScreen ==
  /\ upload = NoUpload \/ ~upload.mounted
  /\ upload = NoUpload => Len(state.items) > 0
  /\ state' = IF Len(state.items) > 0 THEN RESET(state) ELSE state
  /\ last' = IF Len(state.items) > 0 THEN Act("RESET", NoId, NoId, 0) ELSE last
  /\ upload' = Arrive

UiBound(s) ==
  SumSeq([i \in DOMAIN s.items |-> getAssignedQuantity(s.items[i])]) <= UiMaxAssigned

UiInit ==
  /\ state = initialState
  /\ last = NoHistory
  /\ upload = NoUpload

UiNext ==
  \/ addItem /\ UiBound(state')
  \/ updateItem /\ UiBound(state')
  \/ removeItem /\ UiBound(state')
  \/ confirmItems /\ UiBound(state')
  \/ handleManualSubmit /\ UiBound(state')
  \/ handleLoadDemo /\ UiBound(state')
  \/ mountUploadScreen /\ UiBound(state')
  \/ addUser /\ UiBound(state')
  \/ assignItem /\ UiBound(state')
  \/ unassignItem /\ UiBound(state')

SpecUI == UiInit /\ [][UiNext]_vars

\* ------------------------------------------------------ the upload hook
\* useReceiptUpload step by step, on the upload screen: a file is checked,
\* uploaded, parsed, and the parsed items are confirmed or thrown away.  The
\* other screens are reached by navigation, which unmounts the hook.

\* The files that can be dropped: an image or not, within 10MB or not.
Files == [isImage : BOOLEAN, oversize : BOOLEAN]

\* What parseReceiptWithAI can throw: no API key, a failed AI call, a response
\* that JSON.parse or the field access rejects.
ParseErrors ==
  {"Google AI API key is not configured",
   "AI call failed",
   "Failed to parse receipt data from AI response"}

\* What parseAIResponse can return, over the receipts of up to MaxItems items.
ParsedReceipts ==
  {parseAIResponse(rawItems, rawTax) :
     rawItems \in UNION {[1..n -> RawItems] : n \in 0..MaxItems},
     rawTax \in RawTaxes}

\* A failure that records its message and leaves the status where it was.
UploadFailed_KeepStatus(u, message) == [u EXCEPT !.error = message]

\* The catch block and the validation failures of uploadReceipt.
UploadFailed(u, message) == [u EXCEPT !.error = message, !.status = "error"]

\* uploadReceipt up to its first await: the file is validated, the upload
\* starts.
uploadReceipt ==
  /\ upload.mounted
  /\ upload.status = "idle"
  /\ \E file \in Files :
       upload' = IF ~file.isImage THEN UploadFailed(upload, "Please upload an image file")
                 ELSE IF file.oversize
                 THEN UploadFailed(upload, "Image size must be less than 10MB")
                 ELSE [upload EXCEPT !.status = "uploading", !.error = "", !.progress = 20]
  /\ UNCHANGED <<state, last>>

\* uploadReceipt after the simulated upload delay, up to the call of the AI.
uploadReceipt_parsing ==
  /\ upload.mounted
  /\ upload.status = "uploading"
  /\ upload' = [upload EXCEPT !.status = "parsing", !.progress = 60]
  /\ UNCHANGED <<state, last>>

\* uploadReceipt after parseReceiptWithAI: it threw, or it returned the parsed
\* items and tax.
uploadReceipt_parsed ==
  /\ upload.mounted
  /\ upload.status = "parsing"
  /\ \/ \E message \in ParseErrors : upload' = UploadFailed(upload, message)
     \/ \E parsedData \in ParsedReceipts :
          upload' = [upload EXCEPT
                       !.parsedItems = WithIds(parsedData.items, ItemIds(state)),
                       !.tax = parsedData.tax,
                       !.progress = 100,
                       !.status = "success"]
  /\ UNCHANGED <<state, last>>

\* useReceiptUpload.reset, behind "Try Again" and the reset of the parsed list.
resetUpload ==
  /\ upload.mounted
  /\ upload.status \in {"success", "error"}
  /\ upload' = UploadIdle
  /\ UNCHANGED <<state, last>>

\* ReceiptUploader.handleConfirm: confirmItems, then navigate('/split').  The
\* history keeps the parsed items and tax total as its payload.
handleConfirm ==
  /\ upload.mounted
  /\ upload.status = "success"
  /\ state' = ConfirmedState(state, upload.parsedItems, upload.tax)
  /\ last' = ActWith("CONFIRM_ITEMS", NoId, NoId, 0,
                     [items |-> upload.parsedItems, users |-> <<>>,
                      taxAmount |-> upload.tax])
  /\ upload' = Leave

\* The assign screen is opened by its address or the browser's history.
openAssignScreen ==
  /\ upload.mounted
  /\ upload' = Leave
  /\ UNCHANGED <<state, last>>

UploadInit ==
  /\ state = initialState
  /\ last = NoAction
  /\ upload = UploadIdle

UploadNext ==
  \/ uploadReceipt
  \/ uploadReceipt_parsing
  \/ uploadReceipt_parsed
  \/ resetUpload
  \/ handleConfirm
  \/ handleLoadDemo /\ upload.mounted
  \/ handleManualSubmit /\ upload.mounted
  \/ openAssignScreen
  \/ mountUploadScreen
  \/ addUser /\ ~upload.mounted
  \/ removeUser /\ ~upload.mounted
  \/ removeItem /\ ~upload.mounted

SpecUpload == UploadInit /\ [][UploadNext]_vars

\* ------------------------------------------------------------ the store
\* The operations of the store dispatched as its interface allows: the
\* participant list and the whole bill can be replaced, an item selected, the
\* status set.

\* Largest item quantity and largest sum of record quantities in SpecStore.
StoreMaxQty == 2

StoreMaxAssigned == 2

\* The participants that loadDemo brings.
StoreUsers ==
  <<[id |-> 1, name |-> UserName, color |-> "emerald"],
    [id |-> 2, name |-> UserName, color |-> "blue"]>>

\* The lists setUsers is called with: the current participants with some of
\* them left out, in the order they have.
RECURSIVE SubLists(_)
SubLists(users) ==
  IF users = <<>> THEN {<<>>}
  ELSE LET rest == SubLists(Tail(users))
       IN  rest \cup {<<Head(users)>> \o r : r \in rest}

\* The bills loadDemo can be called with: a bill whose item comes with
\* records, and a bill of one item without records.
LoadPayloads ==
  {[items |-> <<[id |-> 1, name |-> ItemName, price |-> 1, quantity |-> 2,
                 assignments |-> <<[userId |-> 2, quantity |-> 1],
                                   [userId |-> 1, quantity |-> 1]>>]>>,
    users |-> StoreUsers,
    taxAmount |-> 1],
   [items |-> <<[id |-> 1, name |-> ItemName, price |-> 1, quantity |-> 1,
                 assignments |-> <<>>]>>,
    users |-> Take(StoreUsers, 1),
    taxAmount |-> 0]}

setUsers ==
  \E users \in SubLists(state.users) :
    /\ state' = SET_USERS(state, users)
    /\ last' = Act("SET_USERS", NoId, NoId, 0)
    /\ UNCHANGED upload

selectItem ==
  \E itemId \in ItemIds(state) \cup {NoId} :
    /\ state' = SELECT_ITEM(state, itemId)
    /\ last' = Act("SELECT_ITEM", itemId, NoId, 0)
    /\ UNCHANGED upload

setStatus ==
  \E status \in {"upload", "assign"} :
    /\ state' = SET_STATUS(state, status)
    /\ last' = Act("SET_STATUS", NoId, NoId, 0)
    /\ UNCHANGED upload

\* The history keeps the selection and the tip of the state that is reset.
reset ==
  /\ state' = RESET(state)
  /\ last' = Act("RESET", state.selectedItemId, NoId, state.tipAmount)
  /\ UNCHANGED upload

\* The history keeps the payload, and the selection and the tip of the state
\* the bill is loaded over.
loadDemo ==
  \E payload \in LoadPayloads :
    /\ state' = LOAD_DEMO(state, payload)
    /\ last' = ActWith("LOAD_DEMO", state.selectedItemId, NoId, state.tipAmount, payload)
    /\ UNCHANGED upload

StoreBound(s) ==
  /\ \A i \in DOMAIN s.items : s.items[i].quantity <= StoreMaxQty
  /\ SumSeq([i \in DOMAIN s.items |-> getAssignedQuantity(s.items[i])]) <= StoreMaxAssigned

StoreNext ==
  \/ addItem /\ StoreBound(state')
  \/ setUsers /\ StoreBound(state')
  \/ removeUser /\ StoreBound(state')
  \/ assignItem /\ StoreBound(state')
  \/ toggleItemAssignment /\ StoreBound(state')
  \/ assignAllToItem /\ StoreBound(state')
  \/ setTip /\ StoreBound(state')
  \/ selectItem /\ StoreBound(state')
  \/ setStatus /\ StoreBound(state')
  \/ reset /\ StoreBound(state')
  \/ loadDemo /\ StoreBound(state')

SpecStore == Init /\ [][StoreNext]_vars

\* The store with tax and tip: items are added, edited and removed through
\* the item forms; quantities stay within ShareMaxQty.

\* Largest item quantity and record quantity of SpecShares.
ShareMaxQty == 2

SharesBound(s) ==
  \A i \in DOMAIN s.items :
    /\ s.items[i].quantity <= ShareMaxQty
    /\ \A k \in DOMAIN s.items[i].assignments :
         s.items[i].assignments[k].quantity <= ShareMaxQty

SharesInit ==
  /\ state = initialState
  /\ last = NoHistory
  /\ upload = NoUpload

SharesNext ==
  \/ addItem /\ SharesBound(state')
  \/ updateItem /\ SharesBound(state')
  \/ removeItem /\ SharesBound(state')
  \/ addUser /\ SharesBound(state')
  \/ removeUser /\ SharesBound(state')
  \/ assignItem /\ SharesBound(state')
  \/ unassignItem /\ SharesBound(state')
  \/ toggleItemAssignment /\ SharesBound(state')
  \/ assignAllToItem /\ SharesBound(state')
  \/ unassignAllFromItem /\ SharesBound(state')
  \/ setTax /\ SharesBound(state')
  \/ setTip /\ SharesBound(state')

SpecShares == SharesInit /\ [][SharesNext]_vars

\* ------------------------------------------------------------- properties

\* The item the last action named.
LastItem == ItemById(state, last.itemId)

HasDuplicateRecord(item) ==
  \E k, j \in DOMAIN item.assignments :
    k # j /\ item.assignments[k].userId = item.assignments[j].userId

\* C1: after assign-all on an item whose quantity is at least the number of
\* participants (and there is at least one participant), the item holds one
\* record per participant in list order, the quantities sum to item.quantity,
\* the first (quantity % count) participants hold floor(quantity / count) + 1
\* and the later ones floor(quantity / count).
C1_AssignAllEven ==
  (/\ last.type = "ASSIGN_ALL_TO_ITEM"
   /\ Len(state.users) > 0
   /\ LastItem.quantity >= Len(state.users))
  => LET n == Len(state.users)
         q == LastItem.quantity
         recs == LastItem.assignments
     IN  /\ Len(recs) = n
         /\ getAssignedQuantity(LastItem) = q
         /\ \A k \in 1..n :
              /\ recs[k].userId = state.users[k].id
              /\ recs[k].quantity = (q \div n) + (IF k <= q % n THEN 1 ELSE 0)

C1_Witness ==
  /\ last.type = "ASSIGN_ALL_TO_ITEM"
  /\ Len(state.users) >= 2
  /\ LastItem.quantity >= Len(state.users)
  /\ LastItem.quantity % Len(state.users) > 0

\* The share entry of participant number u for the item with this id, as a
\* set (empty when the participant has no entry for it).
ShareEntries(s, u, itemId) ==
  LET entries == selectUserShares(s)[u].items
  IN  {entries[k] : k \in {k \in DOMAIN entries : entries[k].item.id = itemId}}

C6_OneRecordPerPair ==
  \A i \in DOMAIN state.items : ~HasDuplicateRecord(state.items[i])

\* An assign that met an existing record: the participant's record is not the
\* last of the item, so the action updated it in place.
C6_Witness ==
  /\ last.type = "ASSIGN_ITEM"
  /\ Len(LastItem.assignments) >= 2
  /\ FindAssignment(LastItem, last.userId) < Len(LastItem.assignments)
  /\ LastItem.assignments[FindAssignment(LastItem, last.userId)].quantity = last.quantity

\* C7: every item's assigned quantity, the sum of the quantities of its
\* records, is never negative.
C7_AssignedNonNegative ==
  \A i \in DOMAIN state.items : getAssignedQuantity(state.items[i]) >= 0

\* A toggle that added a record to an item that had nothing left to hand out.
C7_Witness ==
  /\ last.type = "TOGGLE_ITEM_ASSIGNMENT"
  /\ FindAssignment(LastItem, last.userId) # 0
  /\ LastItem.quantity # 1
  /\ getAssignedQuantity(LastItem) > LastItem.quantity

\* Every item is exactly fully assigned.
AllExactlyAssigned(s) ==
  \A i \in DOMAIN s.items : getAssignedQuantity(s.items[i]) = s.items[i].quantity

\* The sum over the participants of what selectUserShares says each owes.
SumOfTotals(s) ==
  LET shares == selectUserShares(s)
  IN  SumFrac([u \in DOMAIN shares |-> shares[u].total])

AllCovered(s) ==
  \A i \in DOMAIN s.items : getAssignedQuantity(s.items[i]) >= s.items[i].quantity

\* C4: selectAssignmentProgress never exceeds 100, and on a bill with items
\* it is exactly 100 whenever every item's assigned quantity is at least the
\* item's quantity.
C4_ProgressAtMost100 ==
  /\ ~Gt(selectAssignmentProgress(state), Num(100))
  /\ (Len(state.items) > 0 /\ AllCovered(state))
     => selectAssignmentProgress(state) = Num(100)

\* C9: when items enter the store only through the UI input boundary, every
\* item has quantity >= 1 and price >= 0.
C9_ItemsWithinBounds ==
  \A i \in DOMAIN state.items :
    /\ state.items[i].quantity >= 1
    /\ state.items[i].price >= 0

\* C5: every assignment record on every item names a participant currently
\* in state.users.
C5_RecordsNameParticipants == RecordUserIds(state) \subseteq UserIds(state)

\* The elements of a sequence whose id (users) or userId (records) is not
\* the given one, in order.
RECURSIVE UsersWithout(_, _)
UsersWithout(users, id) ==
  IF users = <<>> THEN <<>>
  ELSE IF Head(users).id = id THEN UsersWithout(Tail(users), id)
  ELSE <<Head(users)>> \o UsersWithout(Tail(users), id)

RECURSIVE RecordsWithout(_, _)
RecordsWithout(records, id) ==
  IF records = <<>> THEN <<>>
  ELSE IF Head(records).userId = id THEN RecordsWithout(Tail(records), id)
  ELSE <<Head(records)>> \o RecordsWithout(Tail(records), id)

\* State t is state s with the participant and exactly the participant's
\* records taken out, everything else as it was, and the shares computed on t
\* have no entry for the participant.
RemovedExactly(s, t, id) ==
  /\ t.users = UsersWithout(s.users, id)
  /\ Len(t.items) = Len(s.items)
  /\ \A i \in DOMAIN s.items :
       /\ t.items[i].id = s.items[i].id
       /\ t.items[i].name = s.items[i].name
       /\ t.items[i].price = s.items[i].price
       /\ t.items[i].quantity = s.items[i].quantity
       /\ t.items[i].assignments = RecordsWithout(s.items[i].assignments, id)
  /\ t.taxAmount = s.taxAmount
  /\ t.tipAmount = s.tipAmount
  /\ t.selectedItemId = s.selectedItemId
  /\ t.currentStatus = s.currentStatus
  /\ \A u \in DOMAIN selectUserShares(t) : selectUserShares(t)[u].user.id # id

\* C8: every step that removes a participant takes out of every item exactly
\* the records of that participant and leaves every other record (its
\* participant, quantity and place in the order), every item field, the other
\* participants, tax, tip and selection unchanged; selectUserShares on the
\* resulting state has no entry for the removed participant.
C8_RemoveUserFrame ==
  [][last'.type = "REMOVE_USER" => RemovedExactly(state, state', last'.userId)]_vars

\* A participant who held a record was removed, and a record of another
\* participant, tax, tip and a selection are still there.
C8_Witness ==
  /\ last.type = "REMOVE_USER"
  /\ last.quantity > 0
  /\ RecordUserIds(state) # {}
  /\ Len(state.users) > 0
  /\ state.taxAmount > 0
  /\ state.tipAmount > 0
  /\ state.selectedItemId # NoId

\* C10: after reset() the state is the empty initial state, and after
\* LOAD_DEMO the items, participants and taxAmount are exactly the payload's
\* (records as the loaded items carry them), tipAmount is 0, no item is
\* selected and the status is the initial one, whatever the state before.
C10_ResetAndLoad ==
  /\ last.type = "RESET"
     => state = [currentStatus |-> "upload", items |-> <<>>, users |-> <<>>,
                 taxAmount |-> 0, tipAmount |-> 0, selectedItemId |-> NoId]
  /\ last.type = "LOAD_DEMO"
     => /\ state.items = last.payload.items
        /\ state.users = last.payload.users
        /\ state.taxAmount = last.payload.taxAmount
        /\ state.tipAmount = 0
        /\ state.selectedItemId = NoId
        /\ state.currentStatus = "upload"

\* A bill whose item carries records was loaded over a state that had a tip
\* and a selected item.
C10_Witness ==
  /\ last.type = "LOAD_DEMO"
  /\ last.quantity > 0
  /\ last.itemId # NoId
  /\ \E i \in DOMAIN last.payload.items : last.payload.items[i].assignments # <<>>
  /\ state.items = last.payload.items

\* C11: after a parsed receipt is confirmed the store holds exactly the
\* parsed items and the receipt's tax total, and no participant, tip or
\* selection of the bill that was in the store before.
C11_ConfirmReplacesBill ==
  last.type = "CONFIRM_ITEMS"
  => /\ state.items = last.payload.items
     /\ state.taxAmount = last.payload.taxAmount
     /\ state.users = <<>>
     /\ state.tipAmount = 0
     /\ state.selectedItemId = NoId

\* C18: a failed upload (rejected file, failed AI call, unparseable response)
\* ends in status "error" with its message; the step that fails leaves the
\* store as it was; and while the upload is in status "error" it holds no
\* parsed items or tax, and no step confirms a receipt.
C18_FailureStaysOut ==
  /\ [](upload.error # "" <=> upload.status = "error")
  /\ [][/\ (upload.status # "error" /\ upload'.status = "error")
           => (state' = state /\ last' = last)
        /\ upload.status = "error"
           => /\ upload.parsedItems = <<>>
              /\ upload.tax = 0
              /\ last' # last => last'.type # "CONFIRM_ITEMS"]_vars

\* A parse failure on the upload screen while the store holds a participant.
C18_Witness ==
  /\ upload.status = "error"
  /\ upload.error \in ParseErrors
  /\ upload.progress = 60
  /\ Len(state.users) > 0

\* C12: for every participant selectUserShares gives
\* taxShare = taxAmount * (participant subtotal / state subtotal) and
\* tipShare = tipAmount * (participant subtotal / state subtotal), both 0
\* when the state subtotal is 0, and total = subtotal + taxShare + tipShare.
C12_ProportionalTaxAndTip ==
  LET subtotal == selectSubtotal(state)
      shares == selectUserShares(state)
  IN  \A u \in DOMAIN shares :
        LET ratio == Div(shares[u].subtotal, Num(subtotal)) IN
        /\ shares[u].taxShare =
             IF subtotal = 0 THEN Num(0) ELSE Mul(Num(state.taxAmount), ratio)
        /\ shares[u].tipShare =
             IF subtotal = 0 THEN Num(0) ELSE Mul(Num(state.tipAmount), ratio)
        /\ shares[u].total =
             Add(Add(shares[u].subtotal, shares[u].taxShare), shares[u].tipShare)

\* ---------------------------------------------------------------------
\* The two selectUserShares variants and the double-precision arithmetic
\* of shareAmount.

\* Mutant: the per-unit variant charging the whole item to every claimant.
selectUserSharesPerUnit_WholeItem(s) ==
  LET subtotal == selectSubtotal(s) IN
  [u \in DOMAIN s.users |->
     LET user == s.users[u]
         claimed == SelectSeq(s.items, LAMBDA item :
                      /\ FindAssignment(item, user.id) # 0
                      /\ item.assignments[FindAssignment(item, user.id)].quantity > 0)
         userItems ==
           [k \in DOMAIN claimed |->
              LET item == claimed[k]
                  assignment == item.assignments[FindAssignment(item, user.id)]
              IN  [item |-> item,
                   quantity |-> assignment.quantity,
                   shareAmount |-> Num(item.price * item.quantity)]]
         userSubtotal == SumFrac([k \in DOMAIN userItems |-> userItems[k].shareAmount])
         shareRatio == IF subtotal > 0 THEN Div(userSubtotal, Num(subtotal)) ELSE Num(0)
         taxShare == Mul(Num(s.taxAmount), shareRatio)
         tipShare == Mul(Num(s.tipAmount), shareRatio)
     IN  [user |-> user,
          subtotal |-> userSubtotal,
          taxShare |-> taxShare,
          tipShare |-> tipShare,
          total |-> Add(Add(userSubtotal, taxShare), tipShare),
          itemCount |-> Len(userItems),
          items |-> userItems]]

\* The per-unit selectUserShares: shareAmount = item.price * assignment.quantity.
selectUserSharesPerUnit(s) ==
  LET subtotal == selectSubtotal(s) IN
  [u \in DOMAIN s.users |->
     LET user == s.users[u]
         claimed == SelectSeq(s.items, LAMBDA item :
                      /\ FindAssignment(item, user.id) # 0
                      /\ item.assignments[FindAssignment(item, user.id)].quantity > 0)
         userItems ==
           [k \in DOMAIN claimed |->
              LET item == claimed[k]
                  assignment == item.assignments[FindAssignment(item, user.id)]
              IN  [item |-> item,
                   quantity |-> assignment.quantity,
                   shareAmount |-> Num(item.price * assignment.quantity)]]
         userSubtotal == SumFrac([k \in DOMAIN userItems |-> userItems[k].shareAmount])
         shareRatio == IF subtotal > 0 THEN Div(userSubtotal, Num(subtotal)) ELSE Num(0)
         taxShare == Mul(Num(s.taxAmount), shareRatio)
         tipShare == Mul(Num(s.tipAmount), shareRatio)
     IN  [user |-> user,
          subtotal |-> userSubtotal,
          taxShare |-> taxShare,
          tipShare |-> tipShare,
          total |-> Add(Add(userSubtotal, taxShare), tipShare),
          itemCount |-> Len(userItems),
          items |-> userItems]]

\* A positive JavaScript number (IEEE 754 binary64, normal range): the
\* MantissaBits bits of its significand, most significant first, and the
\* exponent of the first bit.
MantissaBits == 53

RECURSIVE Bits(_)
\* The binary digits of a positive integer, most significant first.
Bits(n) == IF n = 0 THEN <<>> ELSE Append(Bits(n \div 2), n % 2)

Zeros(n) == [i \in 1..n |-> 0]

\* The double that holds a positive integer below 2^MantissaBits.
DoubleOfInt(n) ==
  [m |-> Bits(n) \o Zeros(MantissaBits - Len(Bits(n))), e |-> Len(Bits(n)) - 1]

RECURSIVE Increment(_)
\* A bit string plus one, in the same width (all ones wrap to all zeros).
Increment(bits) ==
  IF Len(bits) = 0 THEN <<>>
  ELSE IF bits[Len(bits)] = 0
       THEN SubSeq(bits, 1, Len(bits) - 1) \o <<1>>
       ELSE Increment(SubSeq(bits, 1, Len(bits) - 1)) \o <<0>>

\* Round to nearest, ties to even: the kept bits, rounded up when asked.
RoundedUp(kept, e) ==
  IF \A i \in DOMAIN kept : kept[i] = 1
  THEN [m |-> <<1>> \o Zeros(Len(kept) - 1), e |-> e + 1]
  ELSE [m |-> Increment(kept), e |-> e]

RECURSIVE FracBits(_, _, _)
\* The first n binary digits after the point of rem / t, for 0 <= rem < t.
FracBits(rem, t, n) ==
  IF n = 0 THEN <<>>
  ELSE <<(2 * rem) \div t>> \o FracBits((2 * rem) % t, t, n - 1)

RECURSIVE FracRem(_, _, _)
\* What is left of rem / t after n binary digits.
FracRem(rem, t, n) == IF n = 0 THEN rem ELSE FracRem((2 * rem) % t, t, n - 1)

RECURSIVE LeadingZeros(_, _)
\* The number of zero digits before the first one in rem / t, 0 < rem < t.
LeadingZeros(rem, t) ==
  IF 2 * rem >= t THEN 0 ELSE 1 + LeadingZeros(2 * rem, t)

\* The double a / t for positive integers a and t.
DoubleDiv(a, t) ==
  LET intBits == Bits(a \div t)
      rem == a % t
      skip == IF Len(intBits) = 0 /\ rem > 0 THEN LeadingZeros(rem, t) ELSE 0
      taken == skip + MantissaBits - Len(intBits)
      kept == intBits \o SubSeq(FracBits(rem, t, taken), skip + 1, taken)
      left == FracRem(rem, t, taken)
      e == IF Len(intBits) > 0 THEN Len(intBits) - 1 ELSE 0 - (skip + 1)
      up == 2 * left > t \/ (2 * left = t /\ kept[MantissaBits] = 1)
  IN  IF up THEN RoundedUp(kept, e) ELSE [m |-> kept, e |-> e]

RECURSIVE TimesBits(_, _, _)
\* The bits of v * bits, least significant first, with the carry coming in.
TimesBits(v, bits, carry) ==
  IF Len(bits) = 0 THEN <<>>
  ELSE LET digit == v * bits[Len(bits)] + carry
       IN  <<digit % 2>> \o TimesBits(v, SubSeq(bits, 1, Len(bits) - 1), digit \div 2)

RECURSIVE TimesCarry(_, _, _)
TimesCarry(v, bits, carry) ==
  IF Len(bits) = 0 THEN carry
  ELSE TimesCarry(v, SubSeq(bits, 1, Len(bits) - 1),
                  (v * bits[Len(bits)] + carry) \div 2)

Reverse(seq) == [i \in 1..Len(seq) |-> seq[Len(seq) + 1 - i]]

\* The double v * d for a positive integer v (itself a double) and a double d.
DoubleTimes(v, d) ==
  LET product == Bits(TimesCarry(v, d.m, 0)) \o Reverse(TimesBits(v, d.m, 0))
      extra == Len(product) - MantissaBits
      kept == SubSeq(product, 1, MantissaBits)
      dropped == SubSeq(product, MantissaBits + 1, Len(product))
      e == d.e + extra
      up == /\ extra > 0
            /\ dropped[1] = 1
            /\ \/ \E i \in 2..extra : dropped[i] = 1
               \/ kept[MantissaBits] = 1
  IN  IF up THEN RoundedUp(kept, e) ELSE [m |-> kept, e |-> e]

\* shareAmount of the proportional selectUserShares as the double the code
\* computes: itemTotalValue * (assignment.quantity / totalAssigned).
shareAmountDouble(item, assignment) ==
  DoubleTimes(item.price * item.quantity,
              DoubleDiv(assignment.quantity, getAssignedQuantity(item)))

\* ------------------------------------------- the quantity picker
\* One item of a larger quantity and two participants on the assign screen:
\* the quantity picker hands out units, tax and tip are set.

PickerMaxQty == 11

PickerMaxPrice == 5

\* The bills with one item and two participants, nothing assigned yet.
PickerBills ==
  {ADD_USER(ADD_USER(ADD_ITEM(initialState, 1,
                              [name |-> ItemName, price |-> price, quantity |-> quantity]),
                     1, UserName),
            2, UserName) :
     price \in 1..PickerMaxPrice, quantity \in 1..PickerMaxQty}

\* ReceiptItem.handleQuantityChange and AssignScreen.handleAssignQuantity: the
\* quantity picked is clamped to what the participant could take; 0 removes
\* the record.
handleQuantityChangeUpTo(maxQty) ==
  \E itemId \in ItemIds(state), userId \in UserIds(state), newQty \in 0..maxQty :
    LET item == ItemById(state, itemId)
        currentQty == getUserAssignedQuantity(item, userId)
        available == getRemainingQuantity(item) + currentQty
        clampedQty == Max(0, Min(newQty, available))
    IN  /\ state' = IF clampedQty = 0
                    THEN UNASSIGN_ITEM(state, itemId, userId)
                    ELSE ASSIGN_ITEM(state, itemId, userId, clampedQty)
        /\ last' = Act(IF clampedQty = 0 THEN "UNASSIGN_ITEM" ELSE "ASSIGN_ITEM",
                       itemId, userId, clampedQty)
        /\ UNCHANGED upload

PickerInit ==
  /\ state \in PickerBills
  /\ last = NoHistory
  /\ upload = NoUpload

PickerNext ==
  \/ handleQuantityChangeUpTo(PickerMaxQty)
  \/ setTax
  \/ setTip

SpecPicker == PickerInit /\ [][PickerNext]_vars

\* The first record of a participant on an item that selectUserShares
\* charges: it exists and its quantity is positive.
Charged(item, userId) ==
  /\ FindAssignment(item, userId) # 0
  /\ item.assignments[FindAssignment(item, userId)].quantity > 0

\* C13 (as claimed): on every item whose assigned quantity equals
\* item.quantity the proportional formula, as the code computes it in
\* double precision, gives each participant exactly
\* item.price * participantQty, the shareAmount of the per-unit variant.
C13_ShareAmountIsPerUnit ==
  \A i \in DOMAIN state.items, u \in DOMAIN state.users :
    LET item == state.items[i]
        k == FindAssignment(item, state.users[u].id)
    IN  (getAssignedQuantity(item) = item.quantity /\ Charged(item, state.users[u].id))
        => shareAmountDouble(item, item.assignments[k])
             = DoubleOfInt(item.price * item.assignments[k].quantity)

\* C13 (amended): in every state where all items are exactly fully
\* assigned, the proportional and the per-unit selectUserShares return the
\* same shareAmount, subtotal, taxShare, tipShare and total for every
\* participant when the arithmetic is exact.
C13_VariantsAgreeExactly ==
  AllExactlyAssigned(state) => selectUserShares(state) = selectUserSharesPerUnit(state)

\* Eleven units at 5 each, split 3 and 8, with tax: shares of 15 and 40.
C13_Witness ==
  /\ AllExactlyAssigned(state)
  /\ Len(state.items) = 1
  /\ state.items[1].quantity = 11
  /\ state.items[1].price = 5
  /\ state.taxAmount = 1
  /\ Len(selectUserShares(state)) = 2
  /\ selectUserShares(state)[1].subtotal = Num(15)
  /\ selectUserShares(state)[2].subtotal = Num(40)

\* Everything of the bill but the records of one item is as it was.
OnlyRecordsOf(s, t, itemId) ==
  /\ [t EXCEPT !.items = s.items] = s
  /\ Len(t.items) = Len(s.items)
  /\ \A i \in DOMAIN s.items :
       IF s.items[i].id = itemId
       THEN [t.items[i] EXCEPT !.assignments = s.items[i].assignments] = s.items[i]
       ELSE t.items[i] = s.items[i]

\* The records before (old) and after (new) a toggle of the participant on
\* an item of the given quantity.
Toggled(old, new, quantity, userId) ==
  IF \E k \in DOMAIN old : old[k].userId = userId
  THEN LET at == CHOOSE k \in DOMAIN old : old[k].userId = userId
       IN  /\ Len(new) = Len(old) - 1
           /\ \A k \in DOMAIN new : new[k] = IF k < at THEN old[k] ELSE old[k + 1]
  ELSE /\ Len(new) = Len(old) + 1
       /\ \A k \in DOMAIN old : new[k] = old[k]
       /\ new[Len(new)] =
            [userId |-> userId,
             quantity |->
               IF quantity = 1 THEN 1
               ELSE Max(1, quantity - SumSeq([k \in DOMAIN old |-> old[k].quantity]))]

\* C14: a toggle removes the participant's record from the item if there is
\* one, whatever its quantity; otherwise it appends exactly one record, of
\* quantity 1 when item.quantity is 1 and max(1, item.quantity - assigned)
\* otherwise; every other record and every other item is unchanged.
C14_ToggleSemantics ==
  [][last'.type = "TOGGLE_ITEM_ASSIGNMENT"
     => /\ OnlyRecordsOf(state, state', last'.itemId)
        /\ \A i \in DOMAIN state.items :
             state.items[i].id = last'.itemId
             => Toggled(state.items[i].assignments, state'.items[i].assignments,
                        state.items[i].quantity, last'.userId)]_vars

\* A toggle that appended a record of the two units left of three, behind
\* the record of the other participant.
C14_Witness ==
  /\ last.type = "TOGGLE_ITEM_ASSIGNMENT"
  /\ LastItem.quantity = 3
  /\ Len(LastItem.assignments) = 2
  /\ LastItem.assignments[1].quantity = 1
  /\ LastItem.assignments[2] = [userId |-> last.userId, quantity |-> 2]

\* The records before (old) and after (new) an assign of the quantity to
\* the participant.
Upserted(old, new, userId, quantity) ==
  IF \E k \in DOMAIN old : old[k].userId = userId
  THEN LET at == CHOOSE k \in DOMAIN old : old[k].userId = userId
       IN  /\ Len(new) = Len(old)
           /\ \A k \in DOMAIN old :
                new[k] = IF k = at THEN [userId |-> userId, quantity |-> quantity]
                         ELSE old[k]
  ELSE new = Append(old, [userId |-> userId, quantity |-> quantity])

\* C15: an assign sets the participant's record on the item to exactly the
\* quantity given, in the record's old position or at the end if there was
\* none, and changes no other record or item; and from every state, for a
\* pair without a record, assign(q1) then assign(q2) gives the state that
\* assign(q2) alone gives.
C15_AssignUpserts ==
  /\ [][last'.type = "ASSIGN_ITEM"
        => /\ OnlyRecordsOf(state, state', last'.itemId)
           /\ \A i \in DOMAIN state.items :
                state.items[i].id = last'.itemId
                => Upserted(state.items[i].assignments, state'.items[i].assignments,
                            last'.userId, last'.quantity)]_vars
  /\ [](\A i \in DOMAIN state.items, userId \in UserIds(state), q1, q2 \in 0..MaxQty :
          FindAssignment(state.items[i], userId) = 0
          => ASSIGN_ITEM(ASSIGN_ITEM(state, state.items[i].id, userId, q1),
                         state.items[i].id, userId, q2)
               = ASSIGN_ITEM(state, state.items[i].id, userId, q2))

\* An assign that changed the first of two records from some other
\* quantity to 3 and left the second one alone.
C15_Witness ==
  /\ last.type = "ASSIGN_ITEM"
  /\ last.quantity = 3
  /\ Len(LastItem.assignments) = 2
  /\ LastItem.assignments[1] = [userId |-> last.userId, quantity |-> 3]
  /\ LastItem.assignments[2].quantity = 2

\* The quantities of an item's records, added up.
assignedQty(item) ==
  SumSeq([k \in DOMAIN item.assignments |-> item.assignments[k].quantity])

\* C16: selectIsBillReady is true exactly when the bill has at least one
\* item, at least one participant, and every item has assignedQty > 0.
C16_ReadyIffAllClaimed ==
  selectIsBillReady(state)
  <=> /\ Len(state.items) >= 1
      /\ Len(state.users) >= 1
      /\ \A i \in DOMAIN state.items : assignedQty(state.items[i]) > 0

\* A ready bill of two items, one of them assigned only in part.
C16_Witness ==
  /\ selectIsBillReady(state)
  /\ Len(state.items) = 2
  /\ \E i \in DOMAIN state.items :
       /\ assignedQty(state.items[i]) > 0
       /\ assignedQty(state.items[i]) < state.items[i].quantity

\* ------------------------------------------- the store called with any id
\* createActions takes item and participant ids as plain strings: the
\* operations are dispatched with the ids of the bill and with an id that
\* names nothing.

UnknownId == 9

DispatchMaxQty == 2

DispatchMaxAssigned == 2

DispatchMaxItems == 1

AnyItemId(s) == ItemIds(s) \cup {UnknownId}

AnyUserId(s) == UserIds(s) \cup {UnknownId}

dispatchRemoveItem ==
  \E itemId \in AnyItemId(state) :
    /\ state' = REMOVE_ITEM(state, itemId)
    /\ last' = Act("REMOVE_ITEM", itemId, NoId, 0)
    /\ UNCHANGED upload

dispatchUpdateItem ==
  \E itemId \in AnyItemId(state), updates \in EditItemPayloads :
    /\ updates.price <= MaxPrice
    /\ state' = UPDATE_ITEM(state, itemId, updates)
    /\ last' = Act("UPDATE_ITEM", itemId, NoId, updates.quantity)
    /\ UNCHANGED upload

dispatchRemoveUser ==
  \E userId \in AnyUserId(state) :
    /\ state' = REMOVE_USER(state, userId)
    /\ last' = Act("REMOVE_USER", NoId, userId, RecordCount(state, userId))
    /\ UNCHANGED upload

dispatchAssignItem ==
  \E itemId \in AnyItemId(state), userId \in AnyUserId(state),
     quantity \in 0..DispatchMaxQty :
    /\ state' = ASSIGN_ITEM(state, itemId, userId, quantity)
    /\ last' = Act("ASSIGN_ITEM", itemId, userId, quantity)
    /\ UNCHANGED upload

dispatchUnassignItem ==
  \E itemId \in AnyItemId(state), userId \in AnyUserId(state) :
    /\ state' = UNASSIGN_ITEM(state, itemId, userId)
    /\ last' = Act("UNASSIGN_ITEM", itemId, userId, 0)
    /\ UNCHANGED upload

dispatchToggleItemAssignment ==
  \E itemId \in AnyItemId(state), userId \in AnyUserId(state) :
    /\ state' = TOGGLE_ITEM_ASSIGNMENT(state, itemId, userId)
    /\ last' = Act("TOGGLE_ITEM_ASSIGNMENT", itemId, userId, 0)
    /\ UNCHANGED upload

dispatchAssignAllToItem ==
  \E itemId \in AnyItemId(state) :
    /\ state' = ASSIGN_ALL_TO_ITEM(state, itemId)
    /\ last' = Act("ASSIGN_ALL_TO_ITEM", itemId, NoId, 0)
    /\ UNCHANGED upload

dispatchUnassignAllFromItem ==
  \E itemId \in AnyItemId(state) :
    /\ state' = UNASSIGN_ALL_FROM_ITEM(state, itemId)
    /\ last' = Act("UNASSIGN_ALL_FROM_ITEM", itemId, NoId, 0)
    /\ UNCHANGED upload

DispatchBound(s) ==
  /\ Len(s.items) <= DispatchMaxItems
  /\ \A i \in DOMAIN s.items : s.items[i].quantity <= DispatchMaxQty
  /\ SumSeq([i \in DOMAIN s.items |-> getAssignedQuantity(s.items[i])])
       <= DispatchMaxAssigned

DispatchNext ==
  \/ addItem /\ DispatchBound(state')
  \/ addUser /\ DispatchBound(state')
  \/ dispatchRemoveItem /\ DispatchBound(state')
  \/ dispatchUpdateItem /\ DispatchBound(state')
  \/ dispatchRemoveUser /\ DispatchBound(state')
  \/ dispatchAssignItem /\ DispatchBound(state')
  \/ dispatchUnassignItem /\ DispatchBound(state')
  \/ dispatchToggleItemAssignment /\ DispatchBound(state')
  \/ dispatchAssignAllToItem /\ DispatchBound(state')
  \/ dispatchUnassignAllFromItem /\ DispatchBound(state')

SpecDispatch == Init /\ [][DispatchNext]_vars

\* The operations that name an item, and those that name a participant.
ItemOperations ==
  {"REMOVE_ITEM", "UPDATE_ITEM", "ASSIGN_ITEM", "UNASSIGN_ITEM",
   "TOGGLE_ITEM_ASSIGNMENT", "ASSIGN_ALL_TO_ITEM", "UNASSIGN_ALL_FROM_ITEM"}

UserOperations ==
  {"REMOVE_USER", "ASSIGN_ITEM", "UNASSIGN_ITEM", "TOGGLE_ITEM_ASSIGNMENT"}

\* The operation named an item id not in items or a participant id not in
\* users of the state s it was applied to.
NamesUnknownId(s, action) ==
  \/ action.type \in ItemOperations /\ action.itemId \notin ItemIds(s)
  \/ action.type \in UserOperations /\ action.userId \notin UserIds(s)

\* C17: every operation that names an item id not present in items or a
\* participant id not present in users returns a state equal to the state it
\* was applied to.
C17_UnknownIdsAreNoOps ==
  [][NamesUnknownId(state, last') => state' = state]_vars

\* ------------------------------------------- participants and the palette
\* Participants are added and removed on the assign screen, which sets no
\* limit to their number; the palette has four colors.

PaletteMaxUsers == 5

\* AssignScreen's add-participant input, up to a number of participants.
addUserWithin(maxUsers) ==
  /\ Len(state.users) < maxUsers
  /\ state' = ADD_USER(state, NewUserId(state), UserName)
  /\ last' = Act("ADD_USER", NoId, NewUserId(state), 0)
  /\ UNCHANGED upload

PaletteNext ==
  \/ addUserWithin(PaletteMaxUsers)
  \/ removeUser

SpecPalette == Init /\ [][PaletteNext]_vars

\* C19: whenever the bill has at most as many participants as the palette
\* has colors (4), the participants' colors are pairwise distinct.
C19_ColorsDistinct ==
  Len(state.users) <= Len(USER_COLOR_LIST)
  => \A i, j \in DOMAIN state.users :
       i # j => state.users[i].color # state.users[j].color

\* ------------------------------------------- the results gate
\* The assign screen with a large item and a single-unit item, one
\* participant: units are handed out, the Continue button is pressed when
\* it is enabled.

GateMaxQty == 200

GateBills ==
  {ADD_USER(ADD_ITEM(ADD_ITEM(initialState, 1,
                              [name |-> ItemName, price |-> 1, quantity |-> quantity]),
                     2, [name |-> ItemName, price |-> 1, quantity |-> 1]),
            1, UserName) :
     quantity \in (GateMaxQty - 1)..GateMaxQty}

\* The Continue button is not disabled: disabled is
\* progress < 100 || state.users.length === 0.
ContinueEnabled(s) ==
  ~(Gt(Num(100), selectAssignmentProgress(s)) \/ Len(s.users) = 0)

\* The Continue button pressed.
continueToResults ==
  /\ ContinueEnabled(state)
  /\ state' = SET_STATUS(state, "results")
  /\ last' = Act("SET_STATUS", NoId, NoId, 0)
  /\ UNCHANGED upload

GateInit ==
  /\ state \in GateBills
  /\ last = NoHistory
  /\ upload = NoUpload

GateNext ==
  \/ handleQuantityChangeUpTo(GateMaxQty)
  \/ toggleItemAssignment
  \/ continueToResults

SpecGate == GateInit /\ [][GateNext]_vars

\* C20: the Continue button is enabled only in states where every item is
\* fully covered (assigned quantity >= item.quantity), and so only in states
\* where selectIsBillReady is true.
C20_GateNeedsFullCover ==
  ContinueEnabled(state) => (AllCovered(state) /\ selectIsBillReady(state))

\* The pairs of an item and a participant who holds no record on it.
FreePairs(s) ==
  {pair \in ItemIds(s) \X UserIds(s) :
     FindAssignment(ItemById(s, pair[1]), pair[2]) = 0}

\* selectUserShares without the item objects of the share entries: the
\* entries keep the item's id, the quantity and the amount.
SharesById(s) ==
  LET shares == selectUserShares(s) IN
  [u \in DOMAIN shares |->
     [shares[u] EXCEPT !.items =
        [k \in DOMAIN shares[u].items |->
           [itemId |-> shares[u].items[k].item.id,
            quantity |-> shares[u].items[k].quantity,
            shareAmount |-> shares[u].items[k].shareAmount]]]]

\* C21 (as claimed): adding a record of quantity 0 for a participant who
\* holds no record on an item leaves selectAssignmentProgress,
\* selectSubtotal, selectGrandTotal, selectUserShares (itemCount and items
\* included) and selectIsBillReady identical.
C21_ZeroRecordInvisible ==
  \A pair \in FreePairs(state) :
    LET with == ASSIGN_ITEM(state, pair[1], pair[2], 0) IN
    /\ selectAssignmentProgress(with) = selectAssignmentProgress(state)
    /\ selectSubtotal(with) = selectSubtotal(state)
    /\ selectGrandTotal(with) = selectGrandTotal(state)
    /\ selectUserShares(with) = selectUserShares(state)
    /\ selectIsBillReady(with) = selectIsBillReady(state)

\* C21 (amended): the same, with the share entries compared by item id,
\* quantity and amount: the item object an entry carries is the item of the
\* state, records included.
C21_ZeroRecordInvisibleById ==
  \A pair \in FreePairs(state) :
    LET with == ASSIGN_ITEM(state, pair[1], pair[2], 0) IN
    /\ selectAssignmentProgress(with) = selectAssignmentProgress(state)
    /\ selectSubtotal(with) = selectSubtotal(state)
    /\ selectGrandTotal(with) = selectGrandTotal(state)
    /\ SharesById(with) = SharesById(state)
    /\ selectIsBillReady(with) = selectIsBillReady(state)

\* A bill with tax in which one participant holds units of an item and the
\* other holds no record on it: the record of quantity 0 can be added next
\* to a share that is charged.
C21_Witness ==
  /\ state.taxAmount > 0
  /\ Len(state.users) = 2
  /\ \E i \in DOMAIN state.items :
       /\ Charged(state.items[i], state.users[1].id)
       /\ <<state.items[i].id, state.users[2].id>> \in FreePairs(state)
       /\ state.items[i].price > 0

\* C22: assign-all with at least one participant replaces the item's
\* records by exactly one record per current participant, in the order of
\* the participant list, whatever records the item held (so assign-all
\* applied twice gives what it gives applied once); with no participant it
\* leaves the item's records unchanged.  Nothing else of the bill changes.
C22_AssignAllReplaces ==
  /\ [][last'.type = "ASSIGN_ALL_TO_ITEM"
        => /\ OnlyRecordsOf(state, state', last'.itemId)
           /\ \A i \in DOMAIN state.items :
                state.items[i].id = last'.itemId
                => IF Len(state.users) = 0
                   THEN state'.items[i].assignments = state.items[i].assignments
                   ELSE /\ Len(state'.items[i].assignments) = Len(state.users)
                        /\ \A k \in DOMAIN state.users :
                             state'.items[i].assignments[k].userId = state.users[k].id]_vars
  /\ [](\A itemId \in ItemIds(state) :
          ASSIGN_ALL_TO_ITEM(ASSIGN_ALL_TO_ITEM(state, itemId), itemId)
            = ASSIGN_ALL_TO_ITEM(state, itemId))

\* An assign-all over participants listed in the order 2, 1: the item's
\* records are in that order.
C22_Witness ==
  /\ last.type = "ASSIGN_ALL_TO_ITEM"
  /\ Len(state.users) = 2
  /\ state.users[1].id = 2
  /\ state.users[2].id = 1
  /\ Len(LastItem.assignments) = 2
  /\ LastItem.assignments[1].userId = 2
  /\ LastItem.assignments[2].userId = 1

\* ------------------------------------------- sums of shares in double precision

\* The number 0 among the doubles of the model.
DoubleZero == [m |-> <<>>, e |-> 0]

RECURSIVE AddBits(_, _, _)
\* The sum of two bit strings of one length and a carry, least significant
\* bit first; the last bit of the result is the carry out.
AddBits(a, b, carry) ==
  IF Len(a) = 0 THEN <<carry>>
  ELSE LET digit == a[Len(a)] + b[Len(b)] + carry
       IN  <<digit % 2>> \o AddBits(SubSeq(a, 1, Len(a) - 1),
                                    SubSeq(b, 1, Len(b) - 1), digit \div 2)

\* The double x + y for doubles x, y >= 0: the exact sum, rounded to nearest,
\* ties to even.
DoublePlus(x, y) ==
  IF x = DoubleZero THEN y
  ELSE IF y = DoubleZero THEN x
  ELSE LET hi == IF x.e >= y.e THEN x ELSE y
           lo == IF x.e >= y.e THEN y ELSE x
           shift == hi.e - lo.e
           raw == Reverse(AddBits(hi.m \o Zeros(shift), Zeros(shift) \o lo.m, 0))
           sum == IF raw[1] = 1 THEN raw ELSE Tail(raw)
           extra == Len(sum) - MantissaBits
           kept == SubSeq(sum, 1, MantissaBits)
           dropped == SubSeq(sum, MantissaBits + 1, Len(sum))
           e == lo.e + extra
           up == /\ extra > 0
                 /\ dropped[1] = 1
                 /\ \/ \E i \in 2..extra : dropped[i] = 1
                    \/ kept[MantissaBits] = 1
       IN  IF up THEN RoundedUp(kept, e) ELSE [m |-> kept, e |-> e]

RECURSIVE userSubtotalDouble(_, _, _)
\* userSubtotal of selectUserShares as the code computes it: the share
\* amounts of the participant's entries added up from 0, item by item, from
\* item number i on.
userSubtotalDouble(s, user, i) ==
  IF i = 0 THEN DoubleZero
  ELSE LET item == s.items[i]
           rest == userSubtotalDouble(s, user, i - 1)
       IN  IF Charged(item, user.id)
           THEN DoublePlus(rest, shareAmountDouble(item,
                                   item.assignments[FindAssignment(item, user.id)]))
           ELSE rest

RECURSIVE SumOfSubtotalsDouble(_, _)
\* The subtotals of the first u participants added up from 0 in list order.
SumOfSubtotalsDouble(s, u) ==
  IF u = 0 THEN DoubleZero
  ELSE DoublePlus(SumOfSubtotalsDouble(s, u - 1),
                  userSubtotalDouble(s, s.users[u], Len(s.items)))

\* ------------------------------------------- one item split by the store
\* One item loaded without records, up to two participants, and the
\* assignment operations of the store with quantities the store accepts.

SplitMaxPrice == 1

SplitMaxQty == 3

SplitMaxAssign == 4

SplitBills ==
  {ADD_ITEM(initialState, 1, [name |-> ItemName, price |-> price, quantity |-> quantity]) :
     price \in 1..SplitMaxPrice, quantity \in 1..SplitMaxQty}

assignItemUpTo(maxQty) ==
  \E itemId \in ItemIds(state), userId \in UserIds(state), quantity \in 0..maxQty :
    /\ state' = ASSIGN_ITEM(state, itemId, userId, quantity)
    /\ last' = Act("ASSIGN_ITEM", itemId, userId, quantity)
    /\ UNCHANGED upload

SplitInit ==
  /\ state \in SplitBills
  /\ last = NoAction
  /\ upload = NoUpload

SplitNext ==
  \/ addUser
  \/ removeUser
  \/ assignItemUpTo(SplitMaxAssign)
  \/ unassignItem
  \/ toggleItemAssignment
  \/ assignAllToItem
  \/ unassignAllFromItem

SpecSplit == SplitInit /\ [][SplitNext]_vars

\* Every item has an assigned quantity above 0.
AllClaimed(s) == \A i \in DOMAIN s.items : getAssignedQuantity(s.items[i]) > 0

UsedColors(s) == {s.users[i].color : i \in DOMAIN s.users}

\* C24: ADD_USER appends the new participant at the end of the list, with the
\* first palette color (emerald, blue, purple, rose) no current participant
\* has, or with palette[participantCount mod 4] when all four are in use,
\* and leaves every existing participant as it was.
C24_AddUserAppendsNextColor ==
  [][last'.type = "ADD_USER"
     => LET n == Len(state.users)
            color == state'.users[n + 1].color
        IN  /\ Len(state'.users) = n + 1
            /\ SubSeq(state'.users, 1, n) = state.users
            /\ state'.users[n + 1].id = last'.userId
            /\ \E k \in DOMAIN USER_COLOR_LIST :
                 /\ color = USER_COLOR_LIST[k]
                 /\ IF \A j \in DOMAIN USER_COLOR_LIST : USER_COLOR_LIST[j] \in UsedColors(state)
                    THEN k = (n % 4) + 1
                    ELSE /\ color \notin UsedColors(state)
                         /\ \A j \in 1..(k - 1) : USER_COLOR_LIST[j] \in UsedColors(state)]_vars

\* A participant was added to a bill whose first participant had left: the
\* new one takes emerald, not the color at its position.
C24_Witness ==
  /\ last.type = "ADD_USER"
  /\ Len(state.users) = 3
  /\ state.users[1].color = "blue"
  /\ state.users[2].color = "purple"
  /\ state.users[3].color = "emerald"

\* A fifth participant was added while all four colors were in use.
C24_WitnessCycle ==
  /\ last.type = "ADD_USER"
  /\ Len(state.users) = 5
  /\ {state.users[i].color : i \in 1..4} = {"emerald", "blue", "purple", "rose"}
  /\ state.users[5].color = "emerald"

\* ------------------------------------------- the item list of the store
\* The store's operations on the item list and the selection, on a bill with
\* up to one participant: items are added, updated with any part of name,
\* price and quantity, and selected.

ItemsMaxQty == 2

ItemsMaxUsers == 1

ItemsMaxAssign == 2

OtherItemName == "Cola"

\* The updates of name, price and quantity: every part of every full update.
ItemUpdates ==
  {[field \in provided |-> full[field]] :
     provided \in SUBSET {"name", "price", "quantity"},
     full \in [name : {ItemName, OtherItemName},
               price : 0..MaxPrice,
               quantity : 1..ItemsMaxQty]}

updateItemFields ==
  \E itemId \in ItemIds(state), updates \in ItemUpdates :
    /\ state' = UPDATE_ITEM(state, itemId, updates)
    /\ last' = ActWith("UPDATE_ITEM", itemId, NoId, 0, updates)
    /\ UNCHANGED upload

ItemsBound(s) == \A i \in DOMAIN s.items : s.items[i].quantity <= ItemsMaxQty

ItemsNext ==
  \/ addItem /\ ItemsBound(state')
  \/ updateItemFields
  \/ selectItem
  \/ addUserWithin(ItemsMaxUsers)
  \/ assignItemUpTo(ItemsMaxAssign)
  \/ setTax
  \/ setTip

SpecItems == Init /\ [][ItemsNext]_vars

\* C25: UPDATE_ITEM(itemId, updates) with updates of name, price and
\* quantity sets the provided fields of the named item and nothing else: the
\* item's id, its other fields and its assignments, every other item, the
\* participants, tax, tip, selection and screen stay as they were.
C25_UpdateItemFrame ==
  [][last'.type = "UPDATE_ITEM"
     => LET updates == last'.payload
        IN  /\ DOMAIN state'.items = DOMAIN state.items
            /\ \A i \in DOMAIN state.items :
                 LET old == state.items[i]
                     new == state'.items[i]
                 IN  IF old.id # last'.itemId THEN new = old
                     ELSE /\ new.id = old.id
                          /\ new.assignments = old.assignments
                          /\ \A field \in {"name", "price", "quantity"} :
                               new[field] = IF field \in DOMAIN updates
                                            THEN updates[field] ELSE old[field]
            /\ state'.users = state.users
            /\ state'.taxAmount = state.taxAmount
            /\ state'.tipAmount = state.tipAmount
            /\ state'.selectedItemId = state.selectedItemId
            /\ state'.currentStatus = state.currentStatus]_vars

\* The quantity of an item with a record of 2 was updated to 1, and nothing
\* else: the record still holds 2. Another item, tax, tip and a selection
\* are present.
C25_Witness ==
  /\ last.type = "UPDATE_ITEM"
  /\ DOMAIN last.payload = {"quantity"}
  /\ Len(state.items) = 2
  /\ state.items[1].id = last.itemId
  /\ state.items[1].quantity = 1
  /\ getAssignedQuantity(state.items[1]) = 2
  /\ state.items[2].name = OtherItemName
  /\ state.taxAmount = 1
  /\ state.tipAmount = 1
  /\ state.selectedItemId = state.items[1].id

\* ------------------------------------------- the selection of the store
\* The store's operations on the selection and the item list: items are
\* added, removed, replaced as a list, and selected, on a bill with up to one
\* participant.

\* The lists setItems is called with: no item, or one item with a new id.
setItems ==
  \E payload \in {<<>>,
                   <<[id |-> NewItemId(state), name |-> ItemName, price |-> 1,
                      quantity |-> 1, assignments |-> <<>>]>>} :
    /\ state' = SET_ITEMS(state, payload)
    /\ last' = Act("SET_ITEMS", NoId, NoId, 0)
    /\ UNCHANGED upload

SelectionNext ==
  \/ addItem /\ ItemsBound(state')
  \/ removeItem
  \/ setItems
  \/ selectItem
  \/ addUserWithin(ItemsMaxUsers)
  \/ assignItemUpTo(ItemsMaxAssign)
  \/ setTax
  \/ setTip

SpecSelection == Init /\ [][SelectionNext]_vars

\* C26: REMOVE_ITEM(itemId) takes the item with that id out of the list and
\* leaves the other items as they were, in their order; the selection
\* becomes null if it was itemId and is unchanged otherwise; participants,
\* tax, tip and screen are unchanged.
C26_RemoveItemFrame ==
  [][last'.type = "REMOVE_ITEM"
     => /\ \E k \in DOMAIN state.items :
             /\ state.items[k].id = last'.itemId
             /\ state'.items = SubSeq(state.items, 1, k - 1)
                                \o SubSeq(state.items, k + 1, Len(state.items))
        /\ state'.selectedItemId = IF state.selectedItemId = last'.itemId
                                   THEN NoId ELSE state.selectedItemId
        /\ state'.users = state.users
        /\ state'.taxAmount = state.taxAmount
        /\ state'.tipAmount = state.tipAmount
        /\ state'.currentStatus = state.currentStatus]_vars

\* An item was removed while the other item, which holds a record, was
\* selected: the selection is still that item.
C26_Witness ==
  /\ last.type = "REMOVE_ITEM"
  /\ Len(state.items) = 1
  /\ state.selectedItemId = state.items[1].id
  /\ state.selectedItemId # last.itemId
  /\ getAssignedQuantity(state.items[1]) > 0
  /\ state.tipAmount = 1

\* The selected item was removed: the selection is null.
C26_WitnessCleared ==
  /\ last.type = "REMOVE_ITEM"
  /\ Len(state.items) = 1
  /\ state.selectedItemId = NoId
  /\ NewItemId(state) = last.itemId

\* C28: selectedItemId is null or the id of an item in state.items.
C28_SelectionIsAnItem ==
  state.selectedItemId = NoId \/ state.selectedItemId \in ItemIds(state)

\* ------------------------------------------- assigning and taking back

\* C27: for an item and a participant who holds no record on it, toggling
\* twice gives back the state as it was, and so does assigning any quantity
\* and then unassigning.
C27_ToggleTwiceRestores ==
  \A pair \in FreePairs(state) :
    /\ TOGGLE_ITEM_ASSIGNMENT(TOGGLE_ITEM_ASSIGNMENT(state, pair[1], pair[2]),
                              pair[1], pair[2]) = state
    /\ FindAssignment(ItemById(TOGGLE_ITEM_ASSIGNMENT(state, pair[1], pair[2]), pair[1]),
                      pair[2]) # 0
    /\ \A quantity \in 0..MaxQty :
         UNASSIGN_ITEM(ASSIGN_ITEM(state, pair[1], pair[2], quantity),
                       pair[1], pair[2]) = state

\* A toggle has just taken a participant's record off an item on which the
\* other participant holds a record.
C27_Witness ==
  /\ last.type = "TOGGLE_ITEM_ASSIGNMENT"
  /\ <<last.itemId, last.userId>> \in FreePairs(state)
  /\ Len(ItemById(state, last.itemId).assignments) = 1
  /\ Len(state.items) = 2

\* ------------------------------------------- the upload status

\* The transitions the project's notes draw for the upload status.
DocumentedTransitions ==
  {<<"idle", "uploading">>, <<"uploading", "parsing">>,
   <<"parsing", "success">>, <<"parsing", "error">>}

\* C29: while the upload screen stays mounted, the upload status changes
\* only along idle -> uploading -> parsing -> success, to error only from
\* parsing, and to idle only by reset.
C29_DocumentedTransitionsOnly ==
  [][(upload.mounted /\ upload'.mounted /\ upload'.status # upload.status)
     => \/ <<upload.status, upload'.status>> \in DocumentedTransitions
        \/ upload' = UploadIdle]_vars

\* ------------------------------------------- uploads in flight
\* useReceiptUpload as its callers can drive it: uploadReceipt and reset are
\* callable whatever the status, and every uploadReceipt call that passed the
\* validation runs on through its two awaits.  Here upload holds the hook's
\* state (hook), the calls in flight in the order they were made (calls: the
\* await the call stands at, and whether uploadReceipt or reset was invoked
\* since the call began to wait for the AI), and the number of invocations
\* of uploadReceipt and reset so far (invocations).

InFlightMaxCalls == 2

InFlightMaxInvocations == 3

\* The results parseReceiptWithAI resolves with here: receipts of one item
\* without tax.
InFlightReceipts == {parsedData \in ParsedReceipts :
                       Len(parsedData.items) = 1 /\ parsedData.tax = 0}

\* The calls in flight after an invocation: those waiting for the AI have
\* been overtaken.
Overtaken(calls) ==
  [k \in DOMAIN calls |->
     [calls[k] EXCEPT !.overtaken = @ \/ calls[k].at = "ai"]]

\* uploadReceipt is called and runs up to its first await, or returns at a
\* failed validation.
invokeUploadReceipt ==
  /\ upload.invocations < InFlightMaxInvocations
  /\ Len(upload.calls) < InFlightMaxCalls
  /\ \E file \in Files :
       upload' =
         IF ~file.isImage
         THEN [upload EXCEPT !.hook = UploadFailed(@, "Please upload an image file"),
                             !.invocations = @ + 1,
                             !.calls = Overtaken(@)]
         ELSE IF file.oversize
         THEN [upload EXCEPT !.hook = UploadFailed(@, "Image size must be less than 10MB"),
                             !.invocations = @ + 1,
                             !.calls = Overtaken(@)]
         ELSE [upload EXCEPT !.hook = [@ EXCEPT !.status = "uploading", !.error = "",
                                                !.progress = 20],
                             !.invocations = @ + 1,
                             !.calls = Append(Overtaken(@),
                                              [at |-> "delay", overtaken |-> FALSE])]
  /\ UNCHANGED <<state, last>>

\* The 300 ms timer of the call made first among those waiting for it fires:
\* the call goes on to parseReceiptWithAI.
resumeAfterDelay ==
  /\ \E k \in DOMAIN upload.calls :
       /\ upload.calls[k].at = "delay"
       /\ \A j \in 1..(k - 1) : upload.calls[j].at # "delay"
       /\ upload' = [upload EXCEPT !.hook = [@ EXCEPT !.status = "parsing", !.progress = 60],
                                   !.calls[k].at = "ai"]
  /\ UNCHANGED <<state, last>>

\* The calls without the one at position k.
WithoutCall(calls, k) == SubSeq(calls, 1, k - 1) \o SubSeq(calls, k + 1, Len(calls))

\* parseReceiptWithAI settles for one of the calls waiting for it: the call
\* stores the result, or its catch block stores the failure.
resumeAfterParse ==
  /\ \E k \in DOMAIN upload.calls :
       /\ upload.calls[k].at = "ai"
       /\ \/ \E message \in ParseErrors :
               upload' = [upload EXCEPT !.hook = UploadFailed(@, message),
                                        !.calls = WithoutCall(@, k)]
          \/ \E parsedData \in InFlightReceipts :
               upload' = [upload EXCEPT
                            !.hook = [@ EXCEPT
                                        !.parsedItems = WithIds(parsedData.items, {}),
                                        !.tax = parsedData.tax,
                                        !.progress = 100,
                                        !.status = "success"],
                            !.calls = WithoutCall(@, k)]
  /\ UNCHANGED <<state, last>>

\* reset is called.
invokeReset ==
  /\ upload.invocations < InFlightMaxInvocations
  /\ upload' = [upload EXCEPT !.hook = UploadIdle, !.invocations = @ + 1,
                              !.calls = Overtaken(@)]
  /\ UNCHANGED <<state, last>>

InFlightInit ==
  /\ state = initialState
  /\ last = NoAction
  /\ upload = [hook |-> UploadIdle, calls |-> <<>>, invocations |-> 0]

InFlightNext ==
  \/ invokeUploadReceipt
  \/ resumeAfterDelay
  \/ resumeAfterParse
  \/ invokeReset

SpecInFlight == InFlightInit /\ [][InFlightNext]_vars

\* C30: when an uploadReceipt call settles after reset or a newer
\* uploadReceipt was invoked while it was waiting for the AI, the step that
\* settles it leaves status, error and parsedItems as they were.
C30_LateCompletionKeepsNewerState ==
  [][\A k \in DOMAIN upload.calls :
       (/\ upload'.calls = WithoutCall(upload.calls, k)
        /\ upload.calls[k].overtaken)
       => /\ upload'.hook.status = upload.hook.status
          /\ upload'.hook.error = upload.hook.error
          /\ upload'.hook.parsedItems = upload.hook.parsedItems]_vars

====
